---- MODULE Spec2Model ----
(***************************************************************************)
(* Retrieval fusion (retriver.py), answer parsing (parser.py) and metric   *)
(* validation (metric_validator.py) of CodeEmpowerSystem.                  *)
(*                                                                         *)
(* Numbers.  Vector similarity scores and confidences are kept in          *)
(* hundredths (90 is 0.90); raw BM25 scores are integers; a fused score is *)
(* kept in thousandths, so 0.7*v + 0.3*min(1, b/10) is 7*v + 30*min(10,b). *)
(* Text is a sequence of one-character strings.                            *)
(***************************************************************************)
EXTENDS Integers, Sequences, FiniteSets, TLC

VARIABLES
    \* Retriever and its two backends
    vector_index,     \* ranked matches the vector backend holds for the query
    bm25_index,       \* ranked matches the lexical backend holds for the query
    has_bm25,         \* Retriever.bm25_index is not None
    k,                \* argument k of the last retrieve call
    use_bm25,         \* argument use_bm25 of the last retrieve call
    bm25_queried,     \* the last retrieve call invoked bm25_index.search
    merged,           \* _merge_results output of the last retrieve call
    retrieved,        \* return value of the last retrieve call
    rpc,              \* "idle" before the first retrieve call, then "done"
    \* MetricValidator
    payload,          \* the dict object handed to validate (mutated in place)
    reference_data,   \* the reference table handed to validate
    payload_at_call,  \* value of the payload object when validate was called
    validate_result,  \* what validate did: returned a dict, or raised
    vpc,              \* "idle" before the validate call, then "done"
    \* ResponseParser
    raw_response,     \* the text handed to parse
    retrieved_docs,   \* the documents handed to parse
    parse_result,     \* what parse did: returned a payload, or raised
    tier,             \* the tier that produced it: strict, repair, fallback
    reparse_result,   \* what parse did on the serialized returned payload
    ppc,              \* "idle", "done" after parse, "reparsed" after the second parse
    \* SemanticChunker
    text,             \* the text handed to split
    file_type,        \* the content kind handed to split
    chunk_size,       \* SemanticChunker.chunk_size
    overlap,          \* SemanticChunker.overlap
    chunks,           \* return value of split
    cpc,              \* "idle" before the split call, then "done"
    \* VectorIndexer
    index,            \* VectorIndexer.index: None, or the vectors of the flat index
    doc_ids,          \* VectorIndexer.doc_ids
    index_file,       \* the file at index_path: absent, or the saved index
    ids_file,         \* the file at index_path + '.ids': absent, or the saved ids
    indexed,          \* history: the chunks whose vectors the index holds, in order
    ncalls            \* number of build_index and add_chunks calls made

rvars == <<vector_index, bm25_index, has_bm25, k, use_bm25, bm25_queried,
           merged, retrieved, rpc>>

vvars == <<payload, reference_data, payload_at_call, validate_result, vpc>>

pvars == <<raw_response, retrieved_docs, parse_result, tier, reparse_result,
           ppc>>

cvars == <<text, file_type, chunk_size, overlap, chunks, cpc>>

ivars == <<index, doc_ids, index_file, ids_file, indexed, ncalls>>

vars == <<rvars, vvars, pvars, cvars, ivars>>

-----------------------------------------------------------------------------
(* Bounds *)

MaxVec == 3        \* longest ranked list of the vector backend
MaxBm == 2         \* longest ranked list of the lexical backend
MaxK == 4          \* largest k passed to retrieve
MaxMetrics == 2    \* longest used_metrics list handed to validate
MaxDocs == 4       \* longest list of retrieved documents handed to parse
MaxCitations == 2  \* longest citations list of a decoded response
MaxPieces == 3     \* most pieces a text handed to split is made of
MaxChunks == 2     \* longest list of chunks handed to build_index or add_chunks
MaxCalls == 3      \* most build_index and add_chunks calls on one indexer

-----------------------------------------------------------------------------
(* Generic helpers *)

Min(a, b) == IF a <= b THEN a ELSE b
Max(a, b) == IF a >= b THEN a ELSE b

\* s[:n] of Python for n >= 0
Take(s, n) == SubSeq(s, 1, Min(n, Len(s)))

Abs(x) == IF x < 0 THEN -x ELSE x

SeqsUpTo(S, n) == UNION {[1..m -> S] : m \in 0..n}

-----------------------------------------------------------------------------
(* Python values.  Every value is a tagged record, so that values of        *)
(* different types can be compared.  Text is a sequence of atoms: an atom   *)
(* is one character, or a whole word where the code only uses the word as   *)
(* a unit (a metric name, a numeral).                                       *)

JNull == [t |-> "null"]
JBool(b) == [t |-> "bool", b |-> b]
JNum(n) == [t |-> "num", n |-> n]
JStr(s) == [t |-> "str", s |-> s]
JList(items) == [t |-> "list", items |-> items]
\* a dict: f maps the keys that are present to their values
JObj(f) == [t |-> "obj", f |-> f]

\* outcome of a call
Returned(v) == [t |-> "return", v |-> v]
Raised(e) == [t |-> "raise", exc |-> e]
NotCalled == [t |-> "none"]

\* key in d
HasKey(d, key) == key \in DOMAIN d.f
\* d.get(key): None when absent
Get(d, key) == IF HasKey(d, key) THEN d.f[key] ELSE JNull
\* d.get(key, default)
GetOr(d, key, default) == IF HasKey(d, key) THEN d.f[key] ELSE default
\* d[key] = v
SetKey(d, key, v) ==
    JObj([x \in DOMAIN d.f \cup {key} |-> IF x = key THEN v ELSE d.f[x]])

\* bool(v): None, False, 0, "", [] and {} are falsy
Truthy(v) ==
    CASE v.t = "null" -> FALSE
      [] v.t = "bool" -> v.b
      [] v.t = "num" -> v.n # 0
      [] v.t = "str" -> v.s # <<>>
      [] v.t = "list" -> v.items # <<>>
      [] v.t = "obj" -> DOMAIN v.f # {}
      [] OTHER -> TRUE          \* nan

-----------------------------------------------------------------------------
(* Text and JSON text.  A JSON document is text whose atoms are the         *)
(* punctuation characters, the quote characters, white space, the escape   *)
(* sequences, and words; a numeral or a keyword is one word.                *)

WS == {" ", "\n"}

\* str.strip()
RECURSIVE LStrip(_)
LStrip(s) == IF s # <<>> /\ Head(s) \in WS THEN LStrip(Tail(s)) ELSE s
RECURSIVE RStrip(_)
RStrip(s) ==
    IF s # <<>> /\ s[Len(s)] \in WS THEN RStrip(SubSeq(s, 1, Len(s) - 1)) ELSE s
Strip(s) == RStrip(LStrip(s))

\* sub in s, for strings
Contains(sub, s) ==
    \E i \in 0..(Len(s) - Len(sub)) : SubSeq(s, i + 1, i + Len(sub)) = sub

EndsWith(s, suffix) ==
    Len(s) >= Len(suffix) /\ SubSeq(s, Len(s) - Len(suffix) + 1, Len(s)) = suffix

\* the atom at position i, "" past the end
At(t, i) == IF i \in 1..Len(t) THEN t[i] ELSE ""

\* the numerals of the model and their values in hundredths
Numerals == {"0", "0.5", "0.85", "1.5", "-0.2", "5", "8.2", "7.0", "1.0",
             "0.9"}
NumeralOf(w) ==
    CASE w = "0" -> 0
      [] w = "0.5" -> 50
      [] w = "0.85" -> 85
      [] w = "1.5" -> 150
      [] w = "-0.2" -> -20
      [] w = "5" -> 500
      [] w = "8.2" -> 820
      [] w = "1.0" -> 100
      [] w = "0.9" -> 90
      [] OTHER -> 700

\* float.__repr__ / int.__repr__ of the numbers of the model
NumeralText(n) ==
    CASE n = 0 -> "0"
      [] n = 50 -> "0.5"
      [] n = 85 -> "0.85"
      [] n = 150 -> "1.5"
      [] n = -20 -> "-0.2"
      [] n = 500 -> "5"
      [] n = 820 -> "8.2"
      [] n = 700 -> "7.0"
      [] n = 100 -> "1.0"
      [] n = 90 -> "0.9"
      [] OTHER -> "0.0"

Fail == [ok |-> FALSE, v |-> JNull, next |-> 0]
Ok(v, n) == [ok |-> TRUE, v |-> v, next |-> n]

RECURSIVE SkipWs(_, _)
SkipWs(t, i) == IF At(t, i) \in WS THEN SkipWs(t, i + 1) ELSE i

\* position of the closing quote of the string that opens before i, 0 if the
\* string is unterminated or holds a raw control character or backslash
RECURSIVE StringEnd(_, _)
StringEnd(t, i) ==
    IF i > Len(t) \/ t[i] \in {"\n", "\\"} THEN 0
    ELSE IF t[i] = "\"" THEN i
    ELSE StringEnd(t, i + 1)

\* the JSON string whose opening quote is at i
ParseString(t, i) ==
    LET Unescape(c) ==
            CASE c = "\\n" -> "\n"
              [] c = "\\\"" -> "\""
              [] c = "\\\\" -> "\\"
              [] c = "\\\\n" -> "\\n"
              [] c = "\\\\\\\"" -> "\\\""
              [] c = "\\\\\\\\" -> "\\\\"
              [] OTHER -> c
    IN
    LET j == StringEnd(t, i + 1)
    IN  IF At(t, i) # "\"" \/ j = 0 THEN Fail
        ELSE Ok(JStr([x \in 1..(j - i - 1) |-> Unescape(t[i + x])]), j + 1)

RECURSIVE ParseValue(_, _), ParseMembers(_, _, _), ParseElements(_, _, _)

\* json.JSONDecoder: the value that starts at or after i
ParseValue(t, i) ==
    LET j == SkipWs(t, i)
        c == At(t, j)
    IN  CASE c = "{" ->
                IF At(t, SkipWs(t, j + 1)) = "}"
                THEN Ok(JObj(<<>>), SkipWs(t, j + 1) + 1)
                ELSE ParseMembers(t, SkipWs(t, j + 1), JObj(<<>>))
          [] c = "[" ->
                IF At(t, SkipWs(t, j + 1)) = "]"
                THEN Ok(JList(<<>>), SkipWs(t, j + 1) + 1)
                ELSE ParseElements(t, j + 1, <<>>)
          [] c = "\"" -> ParseString(t, j)
          [] c = "null" -> Ok(JNull, j + 1)
          [] c = "true" -> Ok(JBool(TRUE), j + 1)
          [] c = "false" -> Ok(JBool(FALSE), j + 1)
          [] c = "NaN" -> Ok([t |-> "nan"], j + 1)
          [] c \in Numerals -> Ok(JNum(NumeralOf(c)), j + 1)
          [] OTHER -> Fail

\* "key": value pairs up to the closing brace; i is at the next key
ParseMembers(t, i, obj) ==
    LET key == ParseString(t, i)
        colon == SkipWs(t, key.next)
        val == ParseValue(t, colon + 1)
        after == SkipWs(t, val.next)
        \* a key is one word, or the empty string
        name == IF key.v.s = <<>> THEN "" ELSE key.v.s[1]
        obj2 == SetKey(obj, name, val.v)
    IN  IF ~key.ok \/ Len(key.v.s) > 1 \/ At(t, colon) # ":" THEN Fail
        ELSE IF ~val.ok THEN Fail
        ELSE IF At(t, after) = "}" THEN Ok(obj2, after + 1)
        ELSE IF At(t, after) = "," THEN ParseMembers(t, SkipWs(t, after + 1), obj2)
        ELSE Fail

\* values up to the closing bracket; i is at the next value
ParseElements(t, i, items) ==
    LET val == ParseValue(t, i)
        after == SkipWs(t, val.next)
    IN  IF ~val.ok THEN Fail
        ELSE IF At(t, after) = "]" THEN Ok(JList(Append(items, val.v)), after + 1)
        ELSE IF At(t, after) = "," THEN ParseElements(t, after + 1, Append(items, val.v))
        ELSE Fail

\* json.loads(text): the decoded value, or ok = FALSE for JSONDecodeError
json_loads(s) ==
    LET Whole(r) == IF r.ok /\ SkipWs(s, r.next) = Len(s) + 1 THEN r ELSE Fail
    IN  Whole(ParseValue(s, 1))

\* the order in which json.dumps writes the keys the model uses
KeyOrder == <<"answer", "confidence", "citations", "key_points", "notes",
              "used_metrics", "choices", "message", "content", "text",
              "name", "value", "unit", "">>

RECURSIVE JoinWith(_, _)
JoinWith(parts, sep) ==
    IF parts = <<>> THEN <<>>
    ELSE IF Len(parts) = 1 THEN parts[1]
    ELSE parts[1] \o sep \o JoinWith(Tail(parts), sep)

RECURSIVE SelectSeq2(_, _)
SelectSeq2(s, S) ==
    IF s = <<>> THEN <<>>
    ELSE IF Head(s) \in S THEN <<Head(s)>> \o SelectSeq2(Tail(s), S)
    ELSE SelectSeq2(Tail(s), S)

\* json.dumps(v) with the quote character q; q = "\"" is json.dumps
RECURSIVE DumpsWith(_, _)
DumpsWith(v, q) ==
        \* in a JSON string: the escape sequence of a character, and back.  The
        \* atoms "\\n", "\\\"" and "\\\\" of a text are a backslash and the character
        \* after it; in a string value they are escaped as a unit, the backslash
        \* doubled.
    LET Escape(c) ==
            CASE c = "\n" -> "\\n"
              [] c = "\"" -> "\\\""
              [] c = "\\" -> "\\\\"
              [] c = "\\n" -> "\\\\n"
              [] c = "\\\"" -> "\\\\\\\""
              [] c = "\\\\" -> "\\\\\\\\"
              [] OTHER -> c
    IN
    CASE v.t = "null" -> <<"null">>
      [] v.t = "bool" -> IF v.b THEN <<"true">> ELSE <<"false">>
      [] v.t = "nan" -> <<"NaN">>
      [] v.t = "num" -> <<NumeralText(v.n)>>
      [] v.t = "str" -> <<q>> \o [i \in 1..Len(v.s) |-> Escape(v.s[i])] \o <<q>>
      [] v.t = "list" ->
            <<"[">> \o JoinWith([i \in 1..Len(v.items) |->
                                    DumpsWith(v.items[i], q)], <<",", " ">>)
            \o <<"]">>
      [] OTHER ->
            LET keys == SelectSeq2(KeyOrder, DOMAIN v.f)
            IN  <<"{">>
                \o JoinWith([i \in 1..Len(keys) |->
                               <<q, keys[i], q, ":", " ">>
                               \o DumpsWith(v.f[keys[i]], q)], <<",", " ">>)
                \o <<"}">>

json_dumps(v) == DumpsWith(v, "\"")

-----------------------------------------------------------------------------
(* Retriever: retriver.py *)

\* vector_index.search(query, k): min(k, ntotal) hits
VectorSearch(kk) == Take(vector_index, kk)

\* bm25_index.search(query, k): results[:k]
Bm25Search(kk) == Take(bm25_index, kk)

\* position of doc_id in the insertion-ordered dict, 0 when absent
RECURSIVE KeyIndex(_, _)
KeyIndex(d, id) ==
    IF d = <<>> THEN 0
    ELSE IF d[Len(d)].id = id THEN
        LET before == KeyIndex(SubSeq(d, 1, Len(d) - 1), id)
        IN  IF before # 0 THEN before ELSE Len(d)
    ELSE KeyIndex(SubSeq(d, 1, Len(d) - 1), id)

\* merged_scores[doc_id] = entry: a new key goes last, an existing key keeps
\* its position and has its value replaced
DictSet(d, entry) ==
    LET i == KeyIndex(d, entry.id)
    IN  IF i = 0 THEN Append(d, entry) ELSE [d EXCEPT ![i] = entry]

\* first loop of _merge_results
RECURSIVE MergeVector(_, _)
MergeVector(d, vec) ==
    IF vec = <<>> THEN d
    ELSE MergeVector(DictSet(d, [id |-> Head(vec).id,
                                 vector_score |-> Head(vec).score,
                                 bm25_score |-> 0,
                                 content |-> ""]),
                     Tail(vec))

\* a second loop that drops the matches the vector backend did not return
RECURSIVE MergeBm25Known(_, _)
MergeBm25Known(d, bm) ==
    IF bm = <<>> THEN d
    ELSE LET r == Head(bm)
             i == KeyIndex(d, r.id)
             d2 == IF i # 0
                   THEN [d EXCEPT ![i].bm25_score = r.score,
                                  ![i].content = r.content]
                   ELSE d
         IN  MergeBm25Known(d2, Tail(bm))

\* second loop of _merge_results
RECURSIVE MergeBm25(_, _)
MergeBm25(d, bm) ==
    IF bm = <<>> THEN d
    ELSE LET r == Head(bm)
             i == KeyIndex(d, r.id)
             d2 == IF i # 0
                   THEN [d EXCEPT ![i].bm25_score = r.score,
                                  ![i].content = r.content]
                   ELSE Append(d, [id |-> r.id, vector_score |-> 0,
                                   bm25_score |-> r.score,
                                   content |-> r.content])
         IN  MergeBm25(d2, Tail(bm))

\* normalisation without the clamp to 1.0
NormalizedBm25NoClamp(b) == IF b > 0 THEN b ELSE 0

\* min(1.0, bm25/10.0) if bm25 > 0 else 0, in tenths
NormalizedBm25(b) == IF b > 0 THEN Min(10, b) ELSE 0

\* an insertion that puts a document before the documents of equal score
RECURSIVE InsertDescTiesFirst(_, _)
InsertDescTiesFirst(sorted, d) ==
    IF sorted = <<>> THEN <<d>>
    ELSE IF Head(sorted).score > d.score
         THEN <<Head(sorted)>> \o InsertDescTiesFirst(Tail(sorted), d)
         ELSE <<d>> \o sorted

\* list.sort(key=score, reverse=True): stable, equal scores keep their order
RECURSIVE InsertDesc(_, _)
InsertDesc(sorted, d) ==
    IF sorted = <<>> THEN <<d>>
    ELSE IF Head(sorted).score >= d.score
         THEN <<Head(sorted)>> \o InsertDesc(Tail(sorted), d)
         ELSE <<d>> \o sorted

\* a sort that orders ascending (reverse=True forgotten)
RECURSIVE SortAsc(_)
SortAsc(s) ==
    IF s = <<>> THEN <<>>
    ELSE LET rest == SortAsc(SubSeq(s, 1, Len(s) - 1))
             d == s[Len(s)]
             n == Cardinality({i \in 1..Len(rest) : rest[i].score <= d.score})
         IN  SubSeq(rest, 1, n) \o <<d>> \o SubSeq(rest, n + 1, Len(rest))

RECURSIVE SortDesc(_)
SortDesc(s) ==
    IF s = <<>> THEN <<>>
    ELSE InsertDesc(SortDesc(SubSeq(s, 1, Len(s) - 1)), s[Len(s)])

_merge_results(vec, bm) ==
    LET MakeDocument(e) ==
                \* vec_weight * vector_score + bm25_weight * normalized_bm25, in thousandths
            LET FinalScore(v, b) == 7 * v + 30 * NormalizedBm25(b)
            IN
            [content |-> e.content,
             source |-> e.id,
             location |-> "unknown",
             score |-> FinalScore(e.vector_score, e.bm25_score),
             metadata |-> [vector_score |-> e.vector_score,
                           bm25_score |-> e.bm25_score]]
    IN
    LET merged_scores == MergeBm25(MergeVector(<<>>, vec), bm)
        merged_documents == [i \in 1..Len(merged_scores) |->
                                MakeDocument(merged_scores[i])]
    IN  SortDesc(merged_documents)

RECURSIVE DedupFrom(_, _)
DedupFrom(results, seen) ==
    IF results = <<>> THEN <<>>
    ELSE IF Head(results).source \in seen
         THEN DedupFrom(Tail(results), seen)
         ELSE <<Head(results)>>
              \o DedupFrom(Tail(results), seen \cup {Head(results).source})

_deduplicate(results) == DedupFrom(results, {})

RetrieverIdle ==
    /\ vector_index = <<>>
    /\ bm25_index = <<>>
    /\ has_bm25 = FALSE
    /\ k = 0
    /\ use_bm25 = FALSE
    /\ bm25_queried = FALSE
    /\ merged = <<>>
    /\ retrieved = <<>>
    /\ rpc = "idle"

RetrieverInit ==
        \* VectorIndexer.search builds one match per hit, nearest first, so the
        \* similarity 1/(1+distance) is non-increasing; the id is the chunk's source,
        \* which several chunks share.
    LET VectorLists ==
            LET VecScores == {30, 90}
            IN
            LET VecIds == {"a", "b", "c"}
            IN
            {s \in UNION {[1..n -> [id : VecIds, score : VecScores]] : n \in 0..MaxVec} :
                \A i \in 1..Len(s) - 1 : s[i].score >= s[i + 1].score}
    IN
        \* SimpleBM25Index.search: one match per document ('doc_i'), positive score,
        \* sorted by score descending; the content comes inline.
    LET Bm25Lists ==
            LET BmScores == {7, 12}
            IN
            LET BmIds == {"a", "b", "d"}
            IN
            {s \in UNION {[1..n -> [id : BmIds, score : BmScores, content : {"text"}]] :
                            n \in 0..MaxBm} :
                /\ \A i \in 1..Len(s) - 1 : s[i].score >= s[i + 1].score
                /\ \A i, j \in 1..Len(s) : i # j => s[i].id # s[j].id}
    IN
    /\ vector_index \in VectorLists
    /\ bm25_index \in Bm25Lists
    /\ has_bm25 \in BOOLEAN
    /\ k = 0
    /\ use_bm25 = FALSE
    /\ bm25_queried = FALSE
    /\ merged = <<>>
    /\ retrieved = <<>>
    /\ rpc = "idle"

\* a retrieve that queries the lexical backend whatever use_bm25 says
retrieveIgnoringFlag(kk, ub) ==
    LET vector_results == VectorSearch(kk)
        query_bm25 == has_bm25
        bm25_results == IF query_bm25 THEN Bm25Search(kk) ELSE <<>>
        m == _merge_results(vector_results, bm25_results)
        deduplicated == _deduplicate(m)
    IN  /\ k' = kk
        /\ use_bm25' = ub
        /\ bm25_queried' = query_bm25
        /\ merged' = m
        /\ retrieved' = Take(deduplicated, kk)
        /\ rpc' = "done"
        /\ UNCHANGED <<vector_index, bm25_index, has_bm25>>

\* Retriever.retrieve(query, k, use_bm25)
retrieve(kk, ub) ==
    LET vector_results == VectorSearch(kk)
        query_bm25 == ub /\ has_bm25
        bm25_results == IF query_bm25 THEN Bm25Search(kk) ELSE <<>>
        m == _merge_results(vector_results, bm25_results)
        deduplicated == _deduplicate(m)
    IN  /\ k' = kk
        /\ use_bm25' = ub
        /\ bm25_queried' = query_bm25
        /\ merged' = m
        /\ retrieved' = Take(deduplicated, kk)
        /\ rpc' = "done"
        /\ UNCHANGED <<vector_index, bm25_index, has_bm25>>

Retrieve == \E kk \in 0..MaxK, ub \in BOOLEAN : retrieve(kk, ub)

RetrieverNext == Retrieve

-----------------------------------------------------------------------------
(* MetricValidator: metric_validator.py.  Metric values are in hundredths. *)

SUPPORTED_METRICS ==
    {"inventory_turnover", "order_fulfillment_rate", "transit_time",
     "warehousing_cost", "on_time_delivery_rate"}

\* _get_tolerance, in percent
_get_tolerance(metric_name) ==
    CASE metric_name = "inventory_turnover" -> 5
      [] metric_name = "order_fulfillment_rate" -> 2
      [] metric_name = "transit_time" -> 10
      [] metric_name = "warehousing_cost" -> 5
      [] metric_name = "on_time_delivery_rate" -> 2
      [] OTHER -> 5

\* float(text) is defined on the numerals; the text is one word
IsNumeral(s) == Len(s) = 1 /\ s[1] \in Numerals

\* float(v) succeeds: numbers, booleans and numeric strings; a non-numeric
\* string is a ValueError, any other type a TypeError, both caught alike
FloatOk(v) ==
    \/ v.t \in {"num", "bool"}
    \/ v.t = "str" /\ IsNumeral(v.s)

Float(v) ==
    CASE v.t = "num" -> v.n
      [] v.t = "bool" -> IF v.b THEN 100 ELSE 0
      [] OTHER -> NumeralOf(v.s[1])

\* _is_within_tolerance: abs(value - reference) / reference <= tolerance;
\* the quotient has the sign of the reference
_is_within_tolerance(value, reference, tolerance) ==
    IF reference = 0 THEN value = 0
    ELSE IF reference > 0
         THEN 100 * Abs(value - reference) <= tolerance * reference
         ELSE TRUE

\* abs(value - reference) / reference * 100 rounded as {diff:.1f}, in tenths
\* of a percent; reference is not 0
DiffTenths(value, reference) ==
    LET num == 1000 * Abs(value - reference)
        den == Abs(reference)
        q == (2 * num + den) \div (2 * den)
    IN  IF reference > 0 THEN q ELSE -q

\* one pass of the loop over payload['used_metrics']; st holds the local
\* variables notes and confidence, and exc once an exception has escaped
ValidateStep(st, metric, ref_table) ==
    IF st.exc # "" THEN st
    ELSE IF metric.t # "obj" THEN [st EXCEPT !.exc = "TypeError"]
    ELSE IF ~HasKey(metric, "name") THEN [st EXCEPT !.exc = "KeyError"]
    ELSE
    LET name == metric.f["name"]
        ref_value == IF name.t = "str" /\ Len(name.s) = 1
                        /\ name.s[1] \in DOMAIN ref_table.f
                     THEN ref_table.f[name.s[1]] ELSE JNull
    IN  IF ~(name.t = "str" /\ Len(name.s) = 1
             /\ name.s[1] \in SUPPORTED_METRICS)
        THEN st
        ELSE IF ref_value = JNull
        THEN [st EXCEPT !.notes = Append(@, [kind |-> "no_reference",
                                              name |-> name.s[1]])]
        ELSE IF ~HasKey(metric, "value")
        THEN [st EXCEPT !.exc = "KeyError"]
        ELSE IF ~(FloatOk(metric.f["value"]) /\ FloatOk(ref_value))
        THEN [st EXCEPT !.notes = Append(@, [kind |-> "type_error",
                                              name |-> name.s[1]])]
        ELSE
        LET metric_value == Float(metric.f["value"])
            ref == Float(ref_value)
            tolerance == _get_tolerance(name.s[1])
        IN  IF ~_is_within_tolerance(metric_value, ref, tolerance)
            THEN IF ref = 0
                 THEN [st EXCEPT !.exc = "ZeroDivisionError"]
                 ELSE IF st.confidence.t \notin {"num", "bool"}
                 THEN [st EXCEPT !.exc = "TypeError"]
                 ELSE [st EXCEPT
                         !.notes = Append(@, [kind |-> "out_of_tolerance",
                                              name |-> name.s[1],
                                              diff |-> DiffTenths(metric_value, ref),
                                              ref |-> ref,
                                              value |-> metric_value]),
                         !.confidence = IF Float(@) <= 50 THEN @ ELSE JNum(50)]
            ELSE [st EXCEPT
                    !.notes = Append(@, [kind |-> "in_tolerance",
                                         name |-> name.s[1],
                                         ref |-> ref,
                                         value |-> metric_value])]

\* a loop that counts a metric it could not compare as a failed one
RECURSIVE ValidateLoopPenalising(_, _, _)
ValidateLoopPenalising(st, metrics, ref_table) ==
    IF metrics = <<>> THEN st
    ELSE LET nxt == ValidateStep(st, Head(metrics), ref_table)
             cut == IF nxt.exc = "" /\ Len(nxt.notes) > Len(st.notes)
                       /\ nxt.notes[Len(nxt.notes)].kind
                            \in {"no_reference", "type_error"}
                       /\ Float(nxt.confidence) > 50
                    THEN [nxt EXCEPT !.confidence = JNum(50)]
                    ELSE nxt
         IN  ValidateLoopPenalising(cut, Tail(metrics), ref_table)

RECURSIVE ValidateLoop(_, _, _)
ValidateLoop(st, metrics, ref_table) ==
    IF metrics = <<>> THEN st
    ELSE ValidateLoop(ValidateStep(st, Head(metrics), ref_table),
                      Tail(metrics), ref_table)

\* {x:.1f} of a number given in tenths
Fixed1(tenths) ==
    (IF tenths < 0 THEN <<"-">> ELSE <<>>)
    \o <<ToString(Abs(tenths) \div 10), ".", ToString(Abs(tenths) % 10)>>

\* str(x) of a float given in hundredths: 850 is 8.5, 92 is 0.92
FloatRepr(n) ==
    (IF n < 0 THEN <<"-">> ELSE <<>>)
    \o <<ToString(Abs(n) \div 100), ".">>
    \o (IF Abs(n) % 10 = 0
        THEN <<ToString((Abs(n) % 100) \div 10)>>
        ELSE <<ToString((Abs(n) % 100) \div 10), ToString(Abs(n) % 10)>>)

\* the text of one note; the Chinese wording is written in English
NoteText(note) ==
    CASE note.kind = "no_reference" ->
            <<"cannot verify ", note.name, ": no reference">>
      [] note.kind = "type_error" ->
            <<"cannot verify ", note.name, ": type error">>
      [] note.kind = "out_of_tolerance" ->
            <<note.name, " out of tolerance by ">> \o Fixed1(note.diff)
            \o <<"%", " (ref:">> \o FloatRepr(note.ref) \o <<", got:">>
            \o FloatRepr(note.value) \o <<")">>
      [] OTHER ->
            <<note.name, " in tolerance">>
            \o <<" (ref:">> \o FloatRepr(note.ref) \o <<", got:">>
            \o FloatRepr(note.value) \o <<")">>

\* the string "；".join(notes), the separator written ";"
RECURSIVE JoinNotes(_)
JoinNotes(notes) ==
    IF notes = <<>> THEN <<>>
    ELSE IF Len(notes) = 1 THEN NoteText(notes[1])
    ELSE NoteText(notes[1]) \o <<";">> \o JoinNotes(Tail(notes))

JoinedNotes(notes) == JStr(JoinNotes(notes))

\* a validate that empties used_metrics once it has compared them
validateClearingMetrics(p, ref_table) ==
    IF ~Truthy(Get(p, "used_metrics"))
    THEN [outcome |-> Returned(p), object |-> p]
    ELSE IF ~HasKey(p, "confidence")
    THEN [outcome |-> Raised("KeyError"), object |-> p]
    ELSE IF p.f["used_metrics"].t # "list"
    THEN [outcome |-> Raised("TypeError"), object |-> p]
    ELSE
    LET st == ValidateLoop([notes |-> <<>>, confidence |-> p.f["confidence"],
                            exc |-> ""],
                           p.f["used_metrics"].items, ref_table)
    IN  IF st.exc # ""
        THEN [outcome |-> Raised(st.exc), object |-> p]
        ELSE LET p2 == SetKey(SetKey(SetKey(p, "notes",
                                            IF st.notes # <<>>
                                            THEN JoinedNotes(st.notes)
                                            ELSE GetOr(p, "notes", JStr(<<>>))),
                                     "confidence", st.confidence),
                              "used_metrics", JList(<<>>))
             IN  [outcome |-> Returned(p2), object |-> p2]

\* validate(payload, reference_data): the outcome and the payload object
\* as the call leaves it
validate(p, ref_table) ==
    IF ~Truthy(Get(p, "used_metrics"))
    THEN [outcome |-> Returned(p), object |-> p]
    ELSE IF ~HasKey(p, "confidence")
    THEN [outcome |-> Raised("KeyError"), object |-> p]
    ELSE IF p.f["used_metrics"].t # "list"
    THEN [outcome |-> Raised("TypeError"), object |-> p]
    ELSE
    LET st == ValidateLoop([notes |-> <<>>, confidence |-> p.f["confidence"],
                            exc |-> ""],
                           p.f["used_metrics"].items, ref_table)
    IN  IF st.exc # ""
        THEN [outcome |-> Raised(st.exc), object |-> p]
        ELSE LET p2 == SetKey(SetKey(p, "notes",
                                     IF st.notes # <<>>
                                     THEN JoinedNotes(st.notes)
                                     ELSE GetOr(p, "notes", JStr(<<>>))),
                              "confidence", st.confidence)
             IN  [outcome |-> Returned(p2), object |-> p2]

Confidences == {JNum(30), JNum(70), JNum(90)}

ValidatorIdle ==
    /\ payload = JNull
    /\ reference_data = JNull
    /\ payload_at_call = JNull
    /\ validate_result = NotCalled
    /\ vpc = "idle"

ValidatorInit ==
        \* a reference table: each supported name of the model has a value or no
        \* entry; shipment_on_time_rate has the entry of the specification's example
    LET ReferenceTables ==
            LET RefValues == {JNum(0), JNum(850), JNum(-850), JStr(<<"x">>)}
            IN
            UNION {{JObj([n \in D \cup {"shipment_on_time_rate"} |->
                            IF n \in D THEN g[n] ELSE JNum(92)]) :
                       g \in [D -> RefValues]} :
                   D \in SUBSET {"inventory_turnover", "transit_time"}}
    IN
    LET ValidatorPayloads ==
            LET Metrics ==
                    LET MetricValues == {JNum(0), JNum(820), JNum(700), JStr(<<"8.2">>),
                                         JStr(<<"n", "a">>), JNull}
                    IN
                        \* inputs of the validator
                    LET MetricNames == {"inventory_turnover", "transit_time", "shipment_on_time_rate"}
                    IN
                    {JObj([name |-> JStr(<<n>>), value |-> v, unit |-> JStr(<<"u">>)]) :
                        n \in MetricNames, v \in MetricValues}
                    \cup {JObj([name |-> JStr(<<"shipment_on_time_rate">>), value |-> JNum(85),
                                unit |-> JStr(<<"u">>)])}
                    \cup {JObj([name |-> JStr(<<"inventory_turnover">>)])}
            IN
            {JObj([answer |-> JStr(<<"x">>), confidence |-> c,
                   citations |-> JList(<<JStr(<<"c">>)>>),
                   key_points |-> JList(<<>>), notes |-> n,
                   used_metrics |-> JList(um)]) :
                c \in Confidences, n \in {JStr(<<>>), JStr(<<"n">>)},
                um \in SeqsUpTo(Metrics, MaxMetrics)}
            \cup {JObj([answer |-> JStr(<<"x">>), confidence |-> c,
                        citations |-> JList(<<JStr(<<"c">>)>>),
                        key_points |-> JList(<<>>), notes |-> JStr(<<"n">>)]) :
                    c \in Confidences}
    IN
    /\ payload \in ValidatorPayloads
    /\ reference_data \in ReferenceTables
    /\ payload_at_call = JNull
    /\ validate_result = NotCalled
    /\ vpc = "idle"

\* result = validator.validate(payload, reference_data)
Validate ==
    /\ vpc = "idle"
    /\ LET r == validate(payload, reference_data)
       IN  /\ payload' = r.object
           /\ validate_result' = r.outcome
    /\ payload_at_call' = payload
    /\ vpc' = "done"
    /\ UNCHANGED reference_data

ValidatorNext == Validate

-----------------------------------------------------------------------------
(* ResponseParser: parser.py.  Confidence is in hundredths.  The Chinese   *)
(* literals of the source are written one atom per character, in pinyin,   *)
(* and its full-width punctuation marks as "<.>", "<!>", "<?>" and "<;>".   *)

\* '无法生成有效回答'
DEFAULT_ANSWER == <<"<wu>", "<fa>", "<sheng>", "<cheng>", "<you>", "<xiao>",
                    "<hui>", "<da>">>
\* '[无有效引用]'
NO_VALID_CITATION == <<"[", "<wu>", "<you>", "<xiao>", "<yin>", "<yong>", "]">>
\* '来自大模型的直接响应'
NOTE_DIRECT == <<"<direct response of the model>">>
\* '处理OpenAI响应失败'
NOTE_OPENAI_FAILED == <<"<handling the OpenAI response failed>">>
\* '原始响应不是有效的JSON格式'
NOTE_NOT_JSON == <<"<the raw response is not valid JSON>">>

\* re.split: the fragments between the marks, empty ones included
RECURSIVE SplitOn(_, _, _)
SplitOn(s, marks, current) ==
    IF s = <<>> THEN <<current>>
    ELSE IF Head(s) \in marks
         THEN <<current>> \o SplitOn(Tail(s), marks, <<>>)
         ELSE SplitOn(Tail(s), marks, Append(current, Head(s)))

RECURSIVE StripLonger(_, _)
StripLonger(fragments, n) ==
    IF fragments = <<>> THEN <<>>
    ELSE IF Len(Strip(Head(fragments))) > n
         THEN <<JStr(Strip(Head(fragments)))>> \o StripLonger(Tail(fragments), n)
         ELSE StripLonger(Tail(fragments), n)

\* key points that are not cut to the first five
_extract_key_points_uncut(answer) ==
    LET SentenceMarks == {"<.>", "<!>", "<?>", "<;>", "\n"}
    IN
    IF answer = <<>> \/ answer = DEFAULT_ANSWER THEN <<>>
    ELSE StripLonger(SplitOn(answer, SentenceMarks, <<>>), 5)

\* _extract_key_points on a str
_extract_key_points(answer) ==
        \* the characters re.split(r'[。！？；\n]', answer) splits on
    LET SentenceMarks == {"<.>", "<!>", "<?>", "<;>", "\n"}
    IN
    IF answer = <<>> \/ answer = DEFAULT_ANSWER THEN <<>>
    ELSE Take(StripLonger(SplitOn(answer, SentenceMarks, <<>>), 5), 5)

\* f"[{doc.source}#{doc.location}]"
CitationOf(doc) == JStr(<<"[">> \o doc.source \o <<"#">> \o doc.location \o <<"]">>)

\* citations of every retrieved document, not of the first three
_generate_citations_uncut(docs) ==
    IF docs = <<>> THEN <<JStr(NO_VALID_CITATION)>>
    ELSE [i \in 1..Len(docs) |-> CitationOf(docs[i])]

\* _generate_citations
_generate_citations(docs) ==
    IF docs = <<>> THEN <<JStr(NO_VALID_CITATION)>>
    ELSE LET top == Take(docs, 3)
         IN  [i \in 1..Len(top) |-> CitationOf(top[i])]

\* the characters of a key, which is one atom as a key of a dict
Spell(atom) ==
    CASE atom = "choices" -> <<"c", "h", "o", "i", "c", "e", "s">>
      [] atom = "message" -> <<"m", "e", "s", "s", "a", "g", "e">>
      [] atom = "text" -> <<"t", "e", "x", "t">>
      [] OTHER -> <<atom>>

RECURSIVE SpellAll(_)
SpellAll(s) == IF s = <<>> THEN <<>> ELSE Spell(Head(s)) \o SpellAll(Tail(s))

\* needle in v, for a str needle: a substring of a str, an element of a
\* list, a key of a dict; a TypeError on the other types
InDefined(v) == v.t \in {"str", "list", "obj"}
In(needle, v) ==
    CASE v.t = "str" -> Contains(SpellAll(needle), v.s)
      [] v.t = "list" ->
            \E i \in 1..Len(v.items) : v.items[i] = JStr(SpellAll(needle))
      [] v.t = "obj" -> Len(needle) = 1 /\ needle[1] \in DOMAIN v.f
      [] OTHER -> FALSE

Elements(v) ==
    CASE v.t = "list" -> v.items
      [] v.t = "str" -> [i \in 1..Len(v.s) |-> JStr(<<v.s[i]>>)]
      [] OTHER ->
            LET keys == SelectSeq2(KeyOrder, DOMAIN v.f)
            IN  [i \in 1..Len(keys) |-> JStr(<<keys[i]>>)]

\* any(doc.source + '#' + doc.location in citation for doc in docs)
Traceable(citation, docs) ==
    \E i \in 1..Len(docs) :
        In(docs[i].source \o <<"#">> \o docs[i].location,
           citation)

\* a validation that accepts every citation
KeepAll(citations, docs) == citations

RECURSIVE KeepTraceable(_, _)
KeepTraceable(citations, docs) ==
    IF citations = <<>> THEN <<>>
    ELSE IF Traceable(Head(citations), docs)
         THEN <<Head(citations)>> \o KeepTraceable(Tail(citations), docs)
         ELSE KeepTraceable(Tail(citations), docs)

\* _validate_citations
_validate_citations(citations, docs) ==
        \* iter(v) is defined on str, list and dict
    LET Iterable(v) == v.t \in {"str", "list", "obj"}
    IN
    IF ~Truthy(citations) THEN Returned(_generate_citations(docs))
    ELSE IF ~Iterable(citations) THEN Raised("TypeError")
    ELSE IF /\ docs # <<>>
            /\ \E i \in 1..Len(Elements(citations)) :
                   ~InDefined(Elements(citations)[i])
         THEN Raised("TypeError")
    ELSE LET valid_citations == KeepTraceable(Elements(citations), docs)
         IN  Returned(IF valid_citations # <<>> THEN valid_citations
                      ELSE _generate_citations(docs))

\* _get_default
_get_default(field) ==
    CASE field = "answer" -> JStr(DEFAULT_ANSWER)
      [] field = "citations" -> JList(<<>>)
      [] field = "notes" -> JStr(<<>>)
      [] field = "confidence" -> JNum(0)
      [] field = "used_metrics" -> JList(<<>>)
      [] field = "key_points" -> JList(<<>>)
      [] OTHER -> JStr(<<>>)

\* the loop over required_fields
FillDefaults(p, fields) ==
    JObj([x \in DOMAIN p.f \cup fields |->
            IF x \in DOMAIN p.f THEN p.f[x] ELSE _get_default(x)])

\* a clamp that bounds the confidence from below only
ClampLow(c) ==
    CASE c.t = "bool" -> IF c.b THEN 100 ELSE 0
      [] c.t = "num" -> Max(0, c.n)
      [] OTHER -> 100

\* max(0.0, min(1.0, c)) for a number, a bool or nan
Clamp(c) ==
    CASE c.t = "bool" -> IF c.b THEN 100 ELSE 0
      [] c.t = "num" -> Max(0, Min(100, c.n))
      [] OTHER -> 100

\* v[key] for a str key: ok = FALSE when it raises
Subscript(v, key) ==
    IF v.t = "obj" /\ key \in DOMAIN v.f THEN [ok |-> TRUE, v |-> v.f[key]]
    ELSE [ok |-> FALSE, v |-> JNull]

\* v[0]
First(v) ==
    CASE v.t = "list" /\ v.items # <<>> -> [ok |-> TRUE, v |-> v.items[1]]
      [] v.t = "str" /\ v.s # <<>> -> [ok |-> TRUE, v |-> JStr(<<v.s[1]>>)]
      [] OTHER -> [ok |-> FALSE, v |-> JNull]

\* the try block of _handle_openai_response up to `if content:`;
\* ok = FALSE when an exception was caught
EnvelopeContent(p) ==
    LET choices == Subscript(p, "choices")
        choice == IF choices.ok THEN First(choices.v) ELSE choices
        message == Subscript(choice.v, "message")
        content == IF message.ok THEN Subscript(message.v, "content") ELSE message
        txt == Subscript(choice.v, "text")
    IN  IF ~choice.ok \/ ~InDefined(choice.v) THEN [ok |-> FALSE, v |-> JNull]
        ELSE IF In(<<"message">>, choice.v) THEN content
        ELSE IF In(<<"text">>, choice.v) THEN txt
        ELSE [ok |-> TRUE, v |-> JStr(<<>>)]

\* _handle_openai_response
_handle_openai_response(p, docs) ==
        \* the payload _handle_openai_response returns when it gives up
    LET OpenAIFailure ==
            JObj([answer |-> JStr(DEFAULT_ANSWER),
                  confidence |-> JNum(0),
                  citations |-> JList(<<JStr(NO_VALID_CITATION)>>),
                  key_points |-> JList(<<>>),
                  notes |-> JStr(NOTE_OPENAI_FAILED),
                  used_metrics |-> JList(<<>>)])
    IN
    LET content == EnvelopeContent(p)
    IN  IF content.ok /\ Truthy(content.v) /\ content.v.t = "str"
        THEN JObj([answer |-> JStr(Strip(content.v.s)),
                   confidence |-> JNum(90),
                   citations |-> JList(_generate_citations(docs)),
                   key_points |-> JList(_extract_key_points(Strip(content.v.s))),
                   notes |-> JStr(NOTE_DIRECT),
                   used_metrics |-> JList(<<>>)])
        ELSE OpenAIFailure

REQUIRED_FIELDS == {"answer", "citations", "notes", "confidence"}

\* _validate_payload: the payload returned, or the exception that escapes
_validate_payload(p, docs) ==
    IF ~InDefined(p) THEN Raised("TypeError")
    ELSE IF In(<<"choices">>, p)
    THEN Returned(_handle_openai_response(p, docs))
    ELSE IF p.t # "obj" THEN Raised("TypeError")
    ELSE
    LET p1 == FillDefaults(p, REQUIRED_FIELDS)
        citations == _validate_citations(p1.f["citations"], docs)
        confidence == p1.f["confidence"]
        answer == p1.f["answer"]
    IN  IF citations.t = "raise" THEN citations
        ELSE IF confidence.t \notin {"num", "bool", "nan"}
        THEN Raised("TypeError")
        ELSE IF Truthy(answer) /\ answer.t # "str" THEN Raised("TypeError")
        ELSE Returned(JObj(
                [answer |-> answer,
                 confidence |-> JNum(Clamp(confidence)),
                 citations |-> JList(citations.v),
                 key_points |-> JList(IF answer.t = "str"
                                      THEN _extract_key_points(answer.s)
                                      ELSE <<>>),
                 notes |-> p1.f["notes"],
                 used_metrics |-> GetOr(p1, "used_metrics", JList(<<>>))]))

\* re.sub(r'(\w+):', r'"\1":', json_str): a word that a colon follows is
\* put in double quotes
RECURSIVE QuoteKeys(_)
QuoteKeys(s) ==
        \* atoms that are not made of word characters only (\w)
    LET NonWordAtoms ==
            {"{", "}", "[", "]", ":", ",", "\"", "'", " ", "\n", "#", ".", "<fence>",
             "\\n", "\\\"", "\\\\", "\\", "<.>", "<!>", "<?>", "<;>",
             "0.5", "0.85", "1.5", "-0.2", "8.2", "7.0", "1.0", "0.9", ""}
    IN
    IF s = <<>> THEN <<>>
    ELSE IF Len(s) >= 2 /\ s[1] \notin NonWordAtoms /\ s[2] = ":"
         THEN <<"\"", s[1], "\"", ":">> \o QuoteKeys(SubSeq(s, 3, Len(s)))
         ELSE <<Head(s)>> \o QuoteKeys(Tail(s))

\* re.search(r'\{.*\}', raw, re.DOTALL): first "{" to last "}", <<>> if none
BraceMatch(raw) ==
    LET opens == {i \in 1..Len(raw) : raw[i] = "{"}
        first == CHOOSE i \in opens : \A j \in opens : i <= j
        closes == {i \in 1..Len(raw) : raw[i] = "}" /\ i > first}
        last == CHOOSE i \in closes : \A j \in closes : j <= i
    IN  IF opens = {} THEN <<>>
        ELSE IF closes = {} THEN <<>>
        ELSE SubSeq(raw, first, last)

\* the fenced-code wrapper removed: strip, drop a leading fence with the
\* json tag (7 characters), drop a trailing fence (3 characters), strip;
\* "<fence>" is the atom of three backquotes
StripFence(raw) ==
    LET StartsWith(s, prefix) ==
            Len(s) >= Len(prefix) /\ SubSeq(s, 1, Len(prefix)) = prefix
    IN
    LET cleaned == Strip(raw)
        c1 == IF StartsWith(cleaned, <<"<fence>", "json">>)
              THEN SubSeq(cleaned, 3, Len(cleaned)) ELSE cleaned
        c2 == IF EndsWith(c1, <<"<fence>">>)
              THEN SubSeq(c1, 1, Len(c1) - 1) ELSE c1
    IN  Strip(c2)

\* _repair_json: the repaired value, None (JNull) when both attempts fail
_repair_json(raw) ==
        \* json_str.replace: every single quote becomes a double quote
    LET ReplaceQuotes(s) == [i \in 1..Len(s) |-> IF s[i] = "'" THEN "\"" ELSE s[i]]
    IN
    LET json_match == BraceMatch(raw)
        Repaired(first, second) ==
            IF json_match # <<>> /\ first.ok THEN first.v
            ELSE IF second.ok THEN second.v
            ELSE JNull
    IN  Repaired(json_loads(QuoteKeys(ReplaceQuotes(json_match))),
                 json_loads(StripFence(raw)))

\* _extract_answer_from_response
_extract_answer_from_response(raw) ==
    LET Stripped(content) == Strip(content.v.s)
        Unwrapped(response_data, content) ==
            /\ response_data.ok
            /\ InDefined(response_data.v)
            /\ In(<<"choices">>, response_data.v)
            /\ content.ok
            /\ content.v.t = "str"
            /\ Stripped(content) # <<>>
        Answer(response_data, cleaned) ==
            IF raw = <<>> THEN DEFAULT_ANSWER
            ELSE IF Unwrapped(response_data, EnvelopeContent(response_data.v))
            THEN Stripped(EnvelopeContent(response_data.v))
            ELSE IF cleaned # <<>> THEN cleaned
            ELSE DEFAULT_ANSWER
    IN  Answer(json_loads(raw), StripFence(raw))

\* _fallback_response
_fallback_response(raw, docs) ==
    LET Payload(answer) ==
            JObj([answer |-> JStr(answer),
                  confidence |-> JNum(50),
                  citations |-> JList(_generate_citations(docs)),
                  key_points |-> JList(_extract_key_points(answer)),
                  notes |-> JStr(NOTE_NOT_JSON),
                  used_metrics |-> JList(<<>>)])
    IN  Payload(_extract_answer_from_response(raw))

\* a parse that validates whatever the repair returned, None excepted
parseValidatingFalsy(raw, docs) ==
    LET Tiers(strict, repaired) ==
            IF strict.ok
            THEN [tier |-> "strict",
                  outcome |-> _validate_payload(strict.v, docs)]
            ELSE IF repaired # JNull
            THEN [tier |-> "repair",
                  outcome |-> _validate_payload(repaired, docs)]
            ELSE [tier |-> "fallback",
                  outcome |-> Returned(_fallback_response(raw,
                                                          docs))]
    IN  Tiers(json_loads(raw), _repair_json(raw))

\* ResponseParser.parse: the outcome and the tier that produced it
parse(raw, docs) ==
    LET Tiers(strict, repaired) ==
            IF strict.ok
            THEN [tier |-> "strict",
                  outcome |-> _validate_payload(strict.v, docs)]
            ELSE IF Truthy(repaired)
            THEN [tier |-> "repair",
                  outcome |-> _validate_payload(repaired, docs)]
            ELSE [tier |-> "fallback",
                  outcome |-> Returned(_fallback_response(raw,
                                                          docs))]
    IN  Tiers(json_loads(raw), _repair_json(raw))

\* citations: of a#1 and b#2, of a document z#9 that was not retrieved, and
\* of a document za#12 that was not retrieved and whose text holds a#1
CIT_A == <<"[", "a", "#", "1", "]">>
CIT_SUBSTR == <<"[", "z", "a", "#", "1", "2", "]">>

ABSENT == [t |-> "absent"]

\* the dict with the keys of g whose value is not ABSENT
MkObj(g) == JObj([x \in {y \in DOMAIN g : g[y] # ABSENT} |-> g[x]])

ANSWER_TEXT == <<"a", "b", "c", "d", "e", "f", "<.>", " ", "x", "y", "\n",
                 "g", "h", "i", "j", "k", "l", "m">>

\* an answer of six sentences ended by the four marks and the newline, and a
\* short fragment
SIX_SENTENCES ==
    <<"a", "b", "c", "d", "e", "1", "<.>", "a", "b", "c", "d", "e", "2", "<!>",
      "a", "b", "c", "d", "e", "3", "<?>", " ", "x", "y", "<;>",
      "a", "b", "c", "d", "e", "4", "<;>", "a", "b", "c", "d", "e", "5", "\n",
      "a", "b", "c", "d", "e", "6">>

\* responses in the envelope shape, well-formed and not
Envelope(choices) == JObj([choices |-> choices])
\* values that are not objects
NonObjects ==
    {JNull, JNum(500), JNum(0), JBool(TRUE), JStr(<<"a", "b">>), JStr(<<>>),
     JStr(Spell("choices")), JList(<<>>), JList(<<JNum(500)>>),
     JList(<<JStr(Spell("choices"))>>)}

\* a JSON text with its keys left unquoted
RECURSIVE UnquoteKeys(_)
UnquoteKeys(s) ==
    IF s = <<>> THEN <<>>
    ELSE IF Len(s) >= 4 /\ s[1] = "\"" /\ s[3] = "\"" /\ s[4] = ":"
         THEN <<s[2], ":">> \o UnquoteKeys(SubSeq(s, 5, Len(s)))
         ELSE <<Head(s)>> \o UnquoteKeys(Tail(s))

Damaged(v) ==
    {<<"s", "e", "e", " ">> \o json_dumps(v) \o <<" ", "o", "k">>,
     DumpsWith(v, "'"),
     UnquoteKeys(json_dumps(v)),
     <<"<fence>", "json", "\n">> \o json_dumps(v) \o <<"\n", "<fence>">>,
     <<"<fence>", "\n">> \o json_dumps(v) \o <<"\n", "<fence>">>,
     json_dumps(v) \o <<"}">>}

ParserIdle ==
    /\ raw_response = <<>>
    /\ retrieved_docs = <<>>
    /\ parse_result = NotCalled
    /\ tier = "none"
    /\ reparse_result = NotCalled
    /\ ppc = "idle"

ParserInit ==
    LET PlainTexts ==
            {<<>>, <<" ">>, <<"n", "o", "t", " ", "j", "s", "o", "n">>,
             <<" ">> \o ANSWER_TEXT \o <<"\n">>,
             <<"<fence>", "json", "\n">> \o ANSWER_TEXT \o <<"\n", "<fence>">>,
             <<"{", "a", "b">>, <<"<fence>", "json", "<fence>">>,
             SIX_SENTENCES, DEFAULT_ANSWER}
    IN
        \* the objects written in the damaged forms the repair tier is meant for
    LET RepairObjects ==
            {MkObj([answer |-> JStr(ANSWER_TEXT), citations |-> c, confidence |-> f]) :
                c \in {ABSENT, JList(<<JStr(CIT_A), JStr(CIT_SUBSTR)>>)},
                f \in {JNum(150), JNull}}
            \cup {JObj(<<>>), Envelope(JList(<<JObj([text |-> JStr(ANSWER_TEXT)])>>))}
    IN
    LET DirectObjects ==
            LET METRIC == JObj([name |-> JStr(<<"inventory_turnover">>), value |-> JNum(820),
                                unit |-> JStr(<<"u">>)])
            IN
            LET ConfidenceInputs == {ABSENT, JNum(85), JNum(150), JNum(-20), JNull,
                                     [t |-> "nan"]}
            IN
            LET CitationInputs ==
                    LET CIT_Z == <<"[", "z", "#", "9", "]">>
                    IN
                    LET CIT_B == <<"[", "b", "#", "2", "]">>
                    IN
                    {JList([i \in 1..Len(s) |-> JStr(s[i])]) :
                        s \in SeqsUpTo({CIT_A, CIT_B, CIT_Z, CIT_SUBSTR}, MaxCitations)}
                    \cup {ABSENT, JNull, JNum(500), JList(<<JNum(500)>>),
                          JStr(<<"a", "#", "1">>)}
            IN
            LET AnswerInputs == {ABSENT, JNull, JStr(ANSWER_TEXT), JNum(500)}
            IN
            {MkObj([answer |-> a, citations |-> c, confidence |-> f,
                    notes |-> IF e THEN JStr(<<"n">>) ELSE ABSENT,
                    used_metrics |-> IF e THEN JList(<<METRIC>>) ELSE ABSENT]) :
                a \in AnswerInputs, c \in CitationInputs, f \in ConfidenceInputs,
                e \in BOOLEAN}
    IN
    LET RawResponses ==
            LET EnvelopeObjects ==
                    {Envelope(JList(<<JObj([message |-> JObj([content |-> JStr(ANSWER_TEXT)])])>>)),
                     Envelope(JList(<<JObj([text |-> JStr(<<" ">> \o ANSWER_TEXT)])>>)),
                     Envelope(JList(<<JObj([message |-> JObj([content |-> JStr(<<" ">>)])])>>)),
                     Envelope(JList(<<JObj([message |-> JObj([content |-> JNum(500)])])>>)),
                     Envelope(JList(<<JObj([message |-> JObj(<<>>)])>>)),
                     Envelope(JList(<<JObj([message |-> JObj([content |-> JStr(<<>>)]),
                                            text |-> JStr(ANSWER_TEXT)])>>)),
                     Envelope(JList(<<JObj([text |-> JNull])>>)),
                     Envelope(JList(<<JNum(500)>>)),
                     Envelope(JList(<<>>)),
                     Envelope(JNum(500)),
                     MkObj([choices |-> JNull, answer |-> JStr(ANSWER_TEXT)])}
                \* responses that bring key_points of their own, a long answer, or
                \* the placeholder as their answer
                KeyPointObjects ==
                    {MkObj([answer |-> JStr(a), key_points |-> kp]) :
                        a \in {ANSWER_TEXT, SIX_SENTENCES, DEFAULT_ANSWER},
                        kp \in {ABSENT, JList(<<JStr(<<"s", "u", "p", "p", "l", "i", "e", "d">>)>>)}}
                    \cup {Envelope(JList(<<JObj([message |->
                                JObj([content |-> JStr(SIX_SENTENCES)])])>>)),
                          Envelope(JList(<<JObj([text |-> JStr(DEFAULT_ANSWER)])>>))}
                \* responses that claim metrics: a supported one with and without a
                \* value, one named as a key of main's reference table, and an entry
                \* that is not a record
                MetricObjects ==
                    {MkObj([answer |-> JStr(ANSWER_TEXT), confidence |-> f,
                            notes |-> JStr(<<"n">>), used_metrics |-> JList(um)]) :
                        f \in {JNum(85), JNum(50)},
                        um \in {<<JObj([name |-> JStr(<<"transit_time">>),
                                        value |-> JNum(700), unit |-> JStr(<<"u">>)]),
                                  JObj([name |-> JStr(<<"confidence">>),
                                        value |-> JNum(50), unit |-> JStr(<<"u">>)])>>,
                                <<JObj([name |-> JStr(<<"confidence">>),
                                        value |-> JNum(50), unit |-> JStr(<<"u">>)])>>,
                                <<JObj([name |-> JStr(<<"inventory_turnover">>)])>>,
                                <<JStr(<<"transit_time">>)>>}}
            IN
            {json_dumps(v) : v \in DirectObjects \cup EnvelopeObjects \cup NonObjects
                                    \cup KeyPointObjects \cup MetricObjects}
            \cup UNION {Damaged(v) : v \in RepairObjects \cup NonObjects}
            \cup PlainTexts
    IN
    LET DocLists ==
                \* inputs of the parser: retrieved documents a#1 and b#2
            LET DocPool == {[source |-> <<"a">>, location |-> <<"1">>],
                            [source |-> <<"b">>, location |-> <<"2">>]}
            IN
                    SeqsUpTo(DocPool, MaxDocs)
    IN
    /\ raw_response \in RawResponses
    /\ retrieved_docs \in DocLists
    /\ parse_result = NotCalled
    /\ tier = "none"
    /\ reparse_result = NotCalled
    /\ ppc = "idle"

\* payload = parser.parse(raw_response, retrieved_docs)
Parse ==
    /\ ppc = "idle"
    /\ \E r \in {parse(raw_response, retrieved_docs)} :
           /\ parse_result' = r.outcome
           /\ tier' = r.tier
    /\ ppc' = "done"
    /\ UNCHANGED <<raw_response, retrieved_docs, reparse_result>>

\* parser.parse(json.dumps(payload), retrieved_docs) on the payload the
\* first call returned
Reparse ==
    /\ ppc = "done"
    /\ parse_result.t = "return"
    /\ reparse_result' = parse(json_dumps(parse_result.v), retrieved_docs).outcome
    /\ ppc' = "reparsed"
    /\ UNCHANGED <<raw_response, retrieved_docs, parse_result, tier>>

ParserNext == Parse \/ Reparse

-----------------------------------------------------------------------------
(* SemanticChunker: chunker.py.  A text is a sequence of characters.  The  *)
(* texts of the model hold none of the words public, private, protected    *)
(* and static, so the optional groups of the Java pattern match nothing.   *)

\* the characters of the model that \w matches
WordChars == {"a", "b", "c", "d", "e", "f", "g", "h"}

\* the first position at or after i whose character is not in S
RECURSIVE SkipWhile(_, _, _)
SkipWhile(t, i, S) ==
    IF i <= Len(t) /\ t[i] \in S THEN SkipWhile(t, i + 1, S) ELSE i

\* the first position at or after i that holds c, 0 if there is none
RECURSIVE FindChar(_, _, _)
FindChar(t, i, c) ==
    IF i > Len(t) THEN 0
    ELSE IF t[i] = c THEN i
    ELSE FindChar(t, i + 1, c)

\* s[a:b] for 0 <= a <= b
Slice(s, a, b) == SubSeq(s, a + 1, Min(b, Len(s)))

\* def\s+\w+ at position i: the position after the name, 0 if no match
DefNameAt(t, i) ==
    LET a == i + 3
        b == SkipWhile(t, a, WS)
        c == SkipWhile(t, b, WordChars)
    IN  IF /\ i + 2 <= Len(t)
           /\ SubSeq(t, i, i + 2) = <<"d", "e", "f">>
           /\ b > a
           /\ c > b
        THEN c ELSE 0

\* .*?\)\s*: from position j: the position after the colon that follows
\* the first closing parenthesis a colon follows, 0 if there is none
RECURSIVE HeaderClose(_, _)
HeaderClose(t, j) ==
    IF j > Len(t) THEN 0
    ELSE IF t[j] = ")" /\ At(t, SkipWhile(t, j + 1, WS)) = ":"
         THEN SkipWhile(t, j + 1, WS) + 1
         ELSE HeaderClose(t, j + 1)

\* def\s+\w+\s*\(.*?\)\s*: at position i: the position after it, 0 if no match
FuncHeaderAt(t, i) ==
    LET c == DefNameAt(t, i)
        o == SkipWhile(t, c, WS)
    IN  IF c = 0 \/ At(t, o) # "(" THEN 0 ELSE HeaderClose(t, o + 1)

\* .*?(?=def\s+\w+|\Z) from position e: where the lazy body stops
RECURSIVE FuncEnd(_, _)
FuncEnd(t, e) ==
    IF e > Len(t) \/ DefNameAt(t, e) # 0 THEN e ELSE FuncEnd(t, e + 1)

\* re.findall(func_pattern, text, re.DOTALL) from position i
RECURSIVE FindFuncs(_, _)
FindFuncs(t, i) ==
    IF i > Len(t) THEN <<>>
    ELSE LET h == FuncHeaderAt(t, i)
         IN  IF h = 0 THEN FindFuncs(t, i + 1)
             ELSE <<SubSeq(t, i, FuncEnd(t, h) - 1)>>
                  \o FindFuncs(t, FuncEnd(t, h))

\* \s*\w+\s+\w+\s*\([^)]*\)\s*\{[^}]*\} at position i: the position after
\* the closing brace, 0 if no match
MethodEndAt(t, i) ==
    LET i1 == SkipWhile(t, i, WS)
        i2 == SkipWhile(t, i1, WordChars)
        i3 == SkipWhile(t, i2, WS)
        i4 == SkipWhile(t, i3, WordChars)
        i5 == SkipWhile(t, i4, WS)
        j == FindChar(t, i5 + 1, ")")
        i6 == SkipWhile(t, j + 1, WS)
        c == FindChar(t, i6 + 1, "}")
    IN  IF /\ i2 > i1 /\ i3 > i2 /\ i4 > i3
           /\ At(t, i5) = "("
           /\ j # 0
           /\ At(t, i6) = "{"
           /\ c # 0
        THEN c + 1 ELSE 0

\* re.findall(method_pattern, text, re.DOTALL) from position i
RECURSIVE FindMethods(_, _)
FindMethods(t, i) ==
    IF i > Len(t) THEN <<>>
    ELSE LET e == MethodEndAt(t, i)
         IN  IF e = 0 THEN FindMethods(t, i + 1)
             ELSE <<SubSeq(t, i, e - 1)>> \o FindMethods(t, e)

\* chunks.append(KnowledgeChunk(...)); chunk_id += 1.  st holds the local
\* variables chunks, chunk_id and current_chunk
Emit(st, content, meta) ==
    [st EXCEPT !.chunks = Append(@, [content |-> content,
                                      metadata |-> meta,
                                      chunk_id |-> st.chunk_id]),
               !.chunk_id = @ + 1]

\* current_chunk[-min(overlap, len(current_chunk)):]; s[-0:] is all of s
LastChars(s, n) ==
    LET m == Min(n, Len(s))
    IN  IF m = 0 THEN s ELSE SubSeq(s, Len(s) - m + 1, Len(s))

\* one pass of `for line in lines` of _split_code
LineStep(st, line, meta, size, ovl) ==
    IF Len(st.current_chunk) + Len(line) > size /\ st.current_chunk # <<>>
    THEN LET st1 == IF Len(Strip(st.current_chunk)) <= size
                    THEN Emit(st, Strip(st.current_chunk), meta)
                    ELSE st
         IN  [st1 EXCEPT !.current_chunk =
                 LastChars(st.current_chunk, ovl) \o <<"\n">> \o line \o <<"\n">>]
    ELSE [st EXCEPT !.current_chunk = @ \o line \o <<"\n">>]

RECURSIVE LineLoop(_, _, _, _, _)
LineLoop(st, lines, meta, size, ovl) ==
    IF lines = <<>> THEN st
    ELSE LineLoop(LineStep(st, Head(lines), meta, size, ovl),
                  Tail(lines), meta, size, ovl)

\* for i in range(0, len(content), chunk_size - overlap): one chunk per
\* window content[i:i + chunk_size]; chunk_size > overlap
RECURSIVE Windows(_, _, _, _, _, _)
Windows(st, content, i, meta, size, ovl) ==
    IF i >= Len(content) THEN st
    ELSE Windows(Emit(st, Slice(content, i, i + size), meta),
                 content, i + size - ovl, meta, size, ovl)

\* the body of `for func in funcs` / `for method in methods`
SplitUnit(st, unit, meta, size, ovl) ==
    IF Len(unit) > size
    THEN LET st1 == LineLoop([st EXCEPT !.current_chunk = <<>>],
                             SplitOn(unit, {"\n"}, <<>>), meta, size, ovl)
             last == Strip(st1.current_chunk)
         IN  IF last # <<>> /\ Len(last) <= size THEN Emit(st1, last, meta)
             ELSE IF last # <<>> THEN Windows(st1, last, 0, meta, size, ovl)
             ELSE st1
    ELSE Emit(st, Strip(unit), meta)

RECURSIVE UnitLoop(_, _, _, _, _)
UnitLoop(st, units, meta, size, ovl) ==
    IF units = <<>> THEN st
    ELSE UnitLoop(SplitUnit(st, Head(units), meta, size, ovl),
                  Tail(units), meta, size, ovl)

\* _split_code: python or java
_split_code(t, ft, size, ovl) ==
    LET found == IF ft = "python" THEN FindFuncs(t, 1) ELSE FindMethods(t, 1)
        units == IF found = <<>> THEN <<t>> ELSE found
        meta == [type |-> "code", language |-> ft]
    IN  UnitLoop([chunks |-> <<>>, chunk_id |-> 0, current_chunk |-> <<>>],
                 units, meta, size, ovl).chunks

\* the last newline of the white space that starts at i, 0 if it has none
LastNewline(t, i) ==
    LET e == SkipWhile(t, i, WS)
        S == {j \in i..(e - 1) : t[j] = "\n"}
    IN  IF S = {} THEN 0 ELSE CHOOSE j \in S : \A x \in S : x <= j

\* re.split(r'\n\s*\n', text): i scans, start is where the paragraph began
RECURSIVE SplitParagraphs(_, _, _)
SplitParagraphs(t, i, start) ==
    IF i > Len(t) THEN <<SubSeq(t, start, Len(t))>>
    ELSE IF t[i] = "\n" /\ LastNewline(t, i + 1) # 0
         THEN <<SubSeq(t, start, i - 1)>>
              \o SplitParagraphs(t, LastNewline(t, i + 1) + 1,
                                 LastNewline(t, i + 1) + 1)
         ELSE SplitParagraphs(t, i + 1, start)

\* one pass of `for paragraph in paragraphs` of _split_document; st also
\* holds current_section
ParagraphStep(st, raw, size, ovl) ==
        \* re.match(r'^[#]+.*$', p) or re.match(r'^.*\n[=-]+$', p), p stripped and
        \* not empty
    LET IsHeading(p) ==
            \/ p[1] = "#" /\ FindChar(p, 1, "\n") = 0
            \/ LET n == FindChar(p, 1, "\n")
               IN  /\ n # 0
                   /\ n < Len(p)
                   /\ \A j \in (n + 1)..Len(p) : p[j] \in {"=", "-"}
    IN
    LET paragraph == Strip(raw)
        section == IF IsHeading(paragraph) THEN paragraph
                   ELSE st.current_section
        meta == [type |-> "document", section |-> section]
        cur == st.current_chunk
        overlap_start == Max(0, Len(cur) - Min(ovl, Len(cur)))
    IN  IF paragraph = <<>> THEN st
        ELSE IF Len(cur) + Len(paragraph) > size /\ cur # <<>>
        THEN LET st1 == IF Len(Strip(cur)) <= size
                        THEN Emit(st, Strip(cur), meta)
                        ELSE st
             IN  [st1 EXCEPT
                    !.current_section = section,
                    !.current_chunk =
                        IF ovl > 0
                        THEN Slice(cur, overlap_start, Len(cur))
                             \o <<"\n">> \o paragraph \o <<"\n">>
                        ELSE paragraph \o <<"\n">>]
        ELSE [st EXCEPT !.current_section = section,
                        !.current_chunk = @ \o paragraph \o <<"\n">>]

RECURSIVE ParagraphLoop(_, _, _, _)
ParagraphLoop(st, paragraphs, size, ovl) ==
    IF paragraphs = <<>> THEN st
    ELSE ParagraphLoop(ParagraphStep(st, Head(paragraphs), size, ovl),
                       Tail(paragraphs), size, ovl)

\* _split_document
_split_document(t, size, ovl) ==
    LET st == ParagraphLoop([chunks |-> <<>>, chunk_id |-> 0,
                             current_chunk |-> <<>>, current_section |-> <<>>],
                            SplitParagraphs(t, 1, 1), size, ovl)
        last == Strip(st.current_chunk)
        meta == [type |-> "document", section |-> st.current_section]
    IN  IF last = <<>> THEN st.chunks
        ELSE IF Len(last) > size
        THEN Windows(st, last, 0, meta, size, ovl).chunks
        ELSE Emit(st, last, meta).chunks

\* SemanticChunker.split
split(t, ft, size, ovl) ==
    IF ft \in {"java", "python"} THEN _split_code(t, ft, size, ovl)
    ELSE _split_document(t, size, ovl)

RECURSIVE Concat(_)
Concat(ss) == IF ss = <<>> THEN <<>> ELSE Head(ss) \o Concat(Tail(ss))

ChunkerIdle ==
    /\ text = <<>>
    /\ file_type = ""
    /\ chunk_size = 0
    /\ overlap = 0
    /\ chunks = <<>>
    /\ cpc = "idle"

\* SemanticChunker(chunk_size, overlap) with chunk_size > overlap >= 0
ChunkerInit ==
    LET Overlaps == {0, 2}
    IN
    LET ChunkSizes == {3, 12}
    IN
    LET FileTypes == {"python", "java", "text"}
    IN
    LET Texts ==
                \* inputs of the chunker: texts made of a few pieces
            LET Pieces ==
                    {<<"a", "b", "c">>, <<" ", " ", " ">>, <<"\n">>, <<"\n", "\n">>, <<"#">>,
                     <<"d", "e", "f", " ", "f", "(", ")", ":">>,
                     <<"g", " ", "h", "(", ")", "{", "}">>}
            IN
                 {Concat(ps) : ps \in SeqsUpTo(Pieces, MaxPieces)}
    IN
    /\ text \in Texts
    /\ file_type \in FileTypes
    /\ chunk_size \in ChunkSizes
    /\ overlap \in Overlaps
    /\ chunk_size > overlap
    /\ chunks = <<>>
    /\ cpc = "idle"

\* chunks = chunker.split(text, source, file_type)
Split ==
    /\ cpc = "idle"
    /\ chunks' = split(text, file_type, chunk_size, overlap)
    /\ cpc' = "done"
    /\ UNCHANGED <<text, file_type, chunk_size, overlap>>

ChunkerNext == Split

-----------------------------------------------------------------------------
(* VectorIndexer: build_index, add_chunks and the saved files *)

\* self.index = None, and a file that does not exist
None == [t |-> "none"]

\* faiss.IndexFlatL2 holding the vectors in the order they were added
IndexFlatL2(vectors) == [t |-> "index", vectors |-> vectors]

\* embedder.embed(chunk.content), padded or cut to the dimension: one
\* vector for each content
embed(content) == [of |-> content]

\* the vectors of a list of chunks, and their ids (chunk.source)
Vectors(cs) == [i \in 1..Len(cs) |-> embed(cs[i].content)]

NewDocIds(cs) == [i \in 1..Len(cs) |-> cs[i].source]

\* save_index writes the index and the ids; the index is not None
save_index(ix) ==
    [ix EXCEPT !.index_file = ix.index, !.ids_file = [t |-> "ids", ids |-> ix.doc_ids]]

\* build_index(chunks): a new index; each chunk's source is appended to
\* self.doc_ids
build_index(ix, cs) ==
    save_index([ix EXCEPT !.index = IndexFlatL2(Vectors(cs)),
                          !.doc_ids = @ \o NewDocIds(cs),
                          !.indexed = cs])

\* add_chunks(chunks)
add_chunks(ix, cs) ==
    IF ix.index = None THEN build_index(ix, cs)
    ELSE save_index([ix EXCEPT
                       !.index = IndexFlatL2(@.vectors \o Vectors(cs)),
                       !.doc_ids = @ \o NewDocIds(cs),
                       !.indexed = @ \o cs])

\* the indexer object and its files as one record
Indexer ==
    [index |-> index, doc_ids |-> doc_ids, index_file |-> index_file,
     ids_file |-> ids_file, indexed |-> indexed]

SetIndexer(ix) ==
    /\ index' = ix.index
    /\ doc_ids' = ix.doc_ids
    /\ index_file' = ix.index_file
    /\ ids_file' = ix.ids_file
    /\ indexed' = ix.indexed

\* the lists of chunks handed to the indexer: chunks of two sources, two
\* of them of the same source
ChunkLists ==
    SeqsUpTo({[source |-> "a.md", content |-> "x"],
              [source |-> "a.md", content |-> "y"],
              [source |-> "b.md", content |-> "x"]}, MaxChunks)

\* VectorIndexer(embedder, index_path), no file at index_path
IndexerInit ==
    /\ index = None
    /\ doc_ids = <<>>
    /\ index_file = None
    /\ ids_file = None
    /\ indexed = <<>>
    /\ ncalls = 0

\* indexer.build_index(chunks)
BuildIndex ==
    /\ ncalls < MaxCalls
    /\ \E cs \in ChunkLists : SetIndexer(build_index(Indexer, cs))
    /\ ncalls' = ncalls + 1

\* indexer.add_chunks(chunks)
AddChunks ==
    /\ ncalls < MaxCalls
    /\ \E cs \in ChunkLists : SetIndexer(add_chunks(Indexer, cs))
    /\ ncalls' = ncalls + 1

IndexerNext == BuildIndex \/ AddChunks

-----------------------------------------------------------------------------
(* main.py: the query command, from the generator's response on *)

\* REFERENCE_METRICS, in hundredths
REFERENCE_METRICS ==
    JObj([relevance |-> JNum(80), completeness |-> JNum(90),
          accuracy |-> JNum(95), clarity |-> JNum(85), confidence |-> JNum(80)])

\* payload = parser.parse(raw_response, retrieved_docs)
QueryParse == Parse /\ UNCHANGED vvars

\* payload = validator.validate(payload, REFERENCE_METRICS); an exception
\* of parse or validate ends the command in its handler
QueryValidate ==
    /\ ppc = "done"
    /\ parse_result.t = "return"
    /\ vpc = "idle"
    /\ \E r \in {validate(parse_result.v, REFERENCE_METRICS)} :
           /\ payload' = r.object
           /\ validate_result' = r.outcome
    /\ payload_at_call' = parse_result.v
    /\ reference_data' = REFERENCE_METRICS
    /\ vpc' = "done"
    /\ UNCHANGED pvars

QueryNext == QueryParse \/ QueryValidate

-----------------------------------------------------------------------------
(* Specifications: one component runs, the others stay idle *)

\* a retriever over its indexes; validator and parser not in use
InitRetriever ==
    RetrieverInit /\ ValidatorIdle /\ ParserIdle /\ ChunkerIdle /\ IndexerInit

SpecRetriever ==
    /\ InitRetriever
    /\ [][RetrieverNext /\ UNCHANGED <<vvars, pvars, cvars, ivars>>]_vars

\* a validator with a payload and a reference table; retriever and parser not in use
InitValidator ==
    ValidatorInit /\ RetrieverIdle /\ ParserIdle /\ ChunkerIdle /\ IndexerInit

SpecValidator ==
    /\ InitValidator
    /\ [][ValidatorNext /\ UNCHANGED <<rvars, pvars, cvars, ivars>>]_vars

\* a parser with a raw response and retrieved documents; retriever and validator not in use
InitParser ==
    ParserInit /\ RetrieverIdle /\ ValidatorIdle /\ ChunkerIdle /\ IndexerInit

SpecParser ==
    /\ InitParser
    /\ [][ParserNext /\ UNCHANGED <<rvars, vvars, cvars, ivars>>]_vars

\* a chunker with a text to split; the other components not in use
InitChunker ==
    ChunkerInit /\ RetrieverIdle /\ ValidatorIdle /\ ParserIdle /\ IndexerInit

SpecChunker ==
    /\ InitChunker
    /\ [][ChunkerNext /\ UNCHANGED <<rvars, vvars, pvars, ivars>>]_vars

\* the query command with the generator's response and the retrieved
\* documents; the validator is called on what the parser returns
InitQuery ==
    ParserInit /\ RetrieverIdle /\ ValidatorIdle /\ ChunkerIdle /\ IndexerInit

SpecQuery ==
    /\ InitQuery
    /\ [][QueryNext /\ UNCHANGED <<rvars, cvars, ivars>>]_vars

\* a new indexer; the other components not in use
InitIndexer ==
    IndexerInit /\ RetrieverIdle /\ ValidatorIdle /\ ParserIdle /\ ChunkerIdle

SpecIndexer ==
    /\ InitIndexer
    /\ [][IndexerNext /\ UNCHANGED <<rvars, vvars, pvars, cvars>>]_vars


-----------------------------------------------------------------------------
(* Properties of the retriever, checked under SpecRetriever *)

\* the matches the backends handed to the last retrieve call
QueriedVector == VectorSearch(k)
QueriedBm25 == IF bm25_queried THEN Bm25Search(k) ELSE <<>>

VectorScoresOf(id) ==
    {QueriedVector[i].score : i \in {j \in 1..Len(QueriedVector) :
                                        QueriedVector[j].id = id}}
Bm25ScoresOf(id) ==
    {QueriedBm25[i].score : i \in {j \in 1..Len(QueriedBm25) :
                                      QueriedBm25[j].id = id}}

SetMax(S) == CHOOSE x \in S : \A y \in S : y <= x

\* C3: retrieve returns at most k documents, no two of them with the same
\* source, ordered by score non-increasing.
C3_AtMostKUniqueSorted ==
    rpc = "done" =>
        /\ Len(retrieved) <= k
        /\ \A i, j \in 1..Len(retrieved) :
              i # j => retrieved[i].source # retrieved[j].source
        /\ \A i \in 1..Len(retrieved) - 1 :
              retrieved[i].score >= retrieved[i + 1].score

\* the backends returned a repeated source and more documents than k, and
\* the k returned documents do not all have the same score
C3_Witness ==
    /\ rpc = "done"
    /\ k = 2
    /\ Len(retrieved) = 2
    /\ Len(merged) > 2
    /\ Len(QueriedVector) > Cardinality({QueriedVector[i].id :
                                            i \in 1..Len(QueriedVector)})
    /\ retrieved[1].score > retrieved[2].score

\* C4: the document returned for a source that several vector matches share
\* carries the vector score of the highest-scored of these matches.
C4_HighestOccurrenceScore ==
    rpc = "done" =>
        \A i \in 1..Len(retrieved) :
            LET d == retrieved[i]
                vs == VectorScoresOf(d.source)
                bs == Bm25ScoresOf(d.source)
            IN  vs # {} =>
                  d.score = 7 * SetMax(vs)
                            + 30 * Min(10, IF bs = {} THEN 0 ELSE SetMax(bs))

\* C5: score = 0.7 * vector_score + 0.3 * min(1, bm25_score / 10) on the two
\* sub-scores the metadata records; each sub-score is one the backend
\* returned for the identifier, or 0 when the backend did not return it.
C5_WeightedScore ==
    rpc = "done" =>
        \A i \in 1..Len(retrieved) :
            LET d == retrieved[i]
                v == d.metadata.vector_score
                b == d.metadata.bm25_score
                vs == VectorScoresOf(d.source)
                bs == Bm25ScoresOf(d.source)
            IN  /\ d.score = 7 * v + 30 * (IF b >= 10 THEN 10 ELSE b)
                /\ IF vs = {} THEN v = 0 ELSE v \in vs
                /\ IF bs = {} THEN b = 0 ELSE b \in bs

\* a returned document fused from both backends, with a lexical score above
\* the assumed maximum of 10, and another one from the lexical backend only
C5_Witness ==
    /\ rpc = "done"
    /\ \E i, j \in 1..Len(retrieved) :
          /\ retrieved[i].metadata.vector_score > 0
          /\ retrieved[i].metadata.bm25_score > 10
          /\ retrieved[j].metadata.vector_score = 0
          /\ retrieved[j].metadata.bm25_score \in 1..9

\* vector matches fused with the lexical matches of the same identifiers,
\* each lexical score forced to zero
ZeroedLexical(kk) ==
    LET bm == Bm25Search(kk)
        RECURSIVE Zeroed(_)
        Zeroed(s) ==
            IF s = <<>> THEN <<>>
            ELSE IF \E i \in 1..Len(VectorSearch(kk)) :
                       VectorSearch(kk)[i].id = Head(s).id
                 THEN <<[Head(s) EXCEPT !.score = 0]>> \o Zeroed(Tail(s))
                 ELSE Zeroed(Tail(s))
    IN  Zeroed(bm)

Ranking(docs) == [i \in 1..Len(docs) |-> <<docs[i].source, docs[i].score>>]

\* C6: with use_bm25 = False the lexical backend is not queried, and the
\* result has the same sources with the same scores in the same order as the
\* fusion of the same vector matches with lexical contributions of zero.
C6_VectorOnly ==
    (rpc = "done" /\ ~use_bm25) =>
        /\ ~bm25_queried
        /\ Ranking(retrieved) =
             Ranking(Take(_deduplicate(_merge_results(VectorSearch(k),
                                                      ZeroedLexical(k))), k))

\* a vector-only retrieve on a retriever whose lexical backend holds a match
\* for an identifier the vector backend returned too
C6_Witness ==
    /\ rpc = "done"
    /\ ~use_bm25
    /\ has_bm25
    /\ Len(retrieved) >= 2
    /\ \E i \in 1..Len(retrieved), j \in 1..Len(Bm25Search(k)) :
          retrieved[i].source = Bm25Search(k)[j].id

-----------------------------------------------------------------------------
(* Properties of the metric validator, checked under SpecValidator *)

\* every claimed metric is a record with a name and a value
WellFormedMetrics(p) ==
    HasKey(p, "used_metrics") =>
        \A i \in 1..Len(p.f["used_metrics"].items) :
            LET m == p.f["used_metrics"].items[i]
            IN  m.t = "obj" /\ HasKey(m, "name") /\ HasKey(m, "value")

\* C2: validate returns a payload without raising; a claim against a
\* reference value of zero is in tolerance if it is zero and otherwise
\* yields a note and the confidence penalty, not an exception.
C2_ValidateNeverRaises ==
    (vpc = "done" /\ WellFormedMetrics(payload_at_call)) =>
        /\ validate_result.t = "return"
        /\ \A i \in 1..Len(GetOr(payload_at_call, "used_metrics",
                                   JList(<<>>)).items) :
              LET m == payload_at_call.f["used_metrics"].items[i]
                  n == m.f["name"].s[1]
              IN  (/\ n \in SUPPORTED_METRICS
                   /\ Get(reference_data, n) = JNum(0)
                   /\ FloatOk(m.f["value"])
                   /\ Float(m.f["value"]) # 0)
                  => Float(validate_result.v.f["confidence"]) <= 50

\* the claimed metrics of the call
ClaimedMetrics == GetOr(payload_at_call, "used_metrics", JList(<<>>)).items

\* metric m of the call has a numeric value and a positive numeric reference
Comparable(m) ==
    LET ref == Get(reference_data, m.f["name"].s[1])
    IN  /\ FloatOk(m.f["value"])
        /\ ref # JNull
        /\ FloatOk(ref)
        /\ Float(ref) > 0

\* abs(value - reference) / reference, against a tolerance in percent
Deviates(m, tolerance) ==
    LET ref == Float(Get(reference_data, m.f["name"].s[1]))
    IN  100 * Abs(Float(m.f["value"]) - ref) > tolerance * ref

\* C16: when the claimed supported metrics are within tolerance of their
\* reference values, validate returns confidence = max(incoming, 0.8).
C16_InToleranceRaisesConfidence ==
    (/\ vpc = "done"
     /\ WellFormedMetrics(payload_at_call)
     /\ ClaimedMetrics # <<>>
     /\ \A i \in 1..Len(ClaimedMetrics) :
           LET m == ClaimedMetrics[i]
           IN  /\ m.f["name"].s[1] \in SUPPORTED_METRICS
               /\ Comparable(m)
               /\ ~Deviates(m, _get_tolerance(m.f["name"].s[1])))
    => /\ validate_result.t = "return"
       /\ Float(validate_result.v.f["confidence"])
            = Max(Float(payload_at_call.f["confidence"]), 80)

\* C17: a claimed shipment_on_time_rate that deviates from its reference by
\* more than 5% makes validate return confidence 0.5 (for an incoming
\* confidence of at least 0.5) and notes holding the deviation to one decimal.
C17_ShipmentOutOfTolerance ==
    (/\ vpc = "done"
     /\ WellFormedMetrics(payload_at_call)
     /\ Float(payload_at_call.f["confidence"]) >= 50)
    => \A i \in 1..Len(ClaimedMetrics) :
          LET m == ClaimedMetrics[i]
              ref == Float(Get(reference_data, m.f["name"].s[1]))
          IN  (/\ m.f["name"].s[1] = "shipment_on_time_rate"
               /\ Comparable(m)
               /\ Deviates(m, 5))
              => /\ validate_result.t = "return"
                 /\ Float(validate_result.v.f["confidence"]) = 50
                 /\ Contains(Fixed1(DiffTenths(Float(m.f["value"]), ref)),
                             validate_result.v.f["notes"].s)

\* the fields validate has no business with
FrameFields == {"answer", "citations", "key_points", "used_metrics"}

\* p and q agree on the fields: each is absent in both or equal in both
SameOn(p, q, fields) ==
    \A x \in fields :
        /\ HasKey(p, x) = HasKey(q, x)
        /\ HasKey(p, x) => p.f[x] = q.f[x]

\* C18: validate leaves answer, citations, key_points and used_metrics as
\* they came in and changes at most confidence and notes; with used_metrics
\* empty or absent the returned payload equals the input in every field.
C18_ValidateFrame ==
    vpc = "done" =>
        /\ SameOn(payload, payload_at_call, FrameFields)
        /\ validate_result.t = "return" =>
              /\ SameOn(validate_result.v, payload_at_call, FrameFields)
              /\ DOMAIN validate_result.v.f = DOMAIN payload_at_call.f
        /\ ~Truthy(Get(payload_at_call, "used_metrics")) =>
              validate_result = Returned(payload_at_call)

\* a call that compared metrics, lowered the confidence and wrote notes
C18_Witness ==
    /\ vpc = "done"
    /\ validate_result.t = "return"
    /\ Len(ClaimedMetrics) = 2
    /\ validate_result.v.f["confidence"] # payload_at_call.f["confidence"]
    /\ validate_result.v.f["notes"] # payload_at_call.f["notes"]

\* C19: validate does not modify the payload object it is given: after the
\* call the object's fields equal their values before it.
C19_PayloadNotModified ==
    vpc = "done" => payload = payload_at_call

-----------------------------------------------------------------------------
(* Properties of the chunker, checked under SpecChunker *)

\* C13: splitting empty text yields zero units for every content kind, the
\* code kinds python and java included.
C13_EmptyTextNoUnits ==
    (cpc = "done" /\ text = <<>>) => chunks = <<>>

\* C14: given chunk_size > overlap >= 0, every unit split returns has
\* non-empty trimmed content, and every unit but possibly the last is at
\* most chunk_size long.
C14_UnitsNonEmptyBounded ==
    (cpc = "done" /\ chunk_size > overlap /\ overlap >= 0) =>
        \A i \in 1..Len(chunks) :
            /\ Strip(chunks[i].content) # <<>>
            /\ i < Len(chunks) => Len(chunks[i].content) <= chunk_size

\* C15: for every content kind, a non-blank text shorter than chunk_size
\* yields exactly one unit, whose content is the trimmed text.
C15_ShortTextOneUnit ==
    (cpc = "done" /\ Strip(text) # <<>> /\ Len(text) < chunk_size) =>
        /\ Len(chunks) = 1
        /\ chunks[1].content = Strip(text)

-----------------------------------------------------------------------------
(* Properties of the response parser, checked under SpecParser *)

ParseReturned == ppc = "done" /\ parse_result.t = "return"

\* the value _validate_payload was given: decoded by the strict tier or
\* recovered by the repair tier
Decoded ==
    IF tier = "strict" THEN json_loads(raw_response).v
    ELSE _repair_json(raw_response)

\* the decoded value is a dict in the direct shape (no choices key)
DirectShape ==
    /\ ppc = "done"
    /\ tier \in {"strict", "repair"}
    /\ Decoded.t = "obj"
    /\ "choices" \notin DOMAIN Decoded.f

PayloadFields ==
    {"answer", "confidence", "citations", "key_points", "notes", "used_metrics"}

\* C1: parse never raises and returns a payload with all six fields, also
\* when the response decodes to JSON that is not an object or to an object
\* whose confidence, answer or citations has an unexpected type.
C1_ParseNeverRaises ==
    ppc = "done" =>
        /\ parse_result.t = "return"
        /\ DOMAIN parse_result.v.f = PayloadFields

\* C7: the confidence of a returned payload is a number in [0,1]; a decoded
\* confidence above 1 becomes 1.0, one below 0 becomes 0.0, one inside is
\* kept; the envelope paths assign 0.9 or 0.0 and the fallback path 0.5.
C7_ConfidenceClamped ==
    ParseReturned =>
        LET c == parse_result.v.f["confidence"]
        IN  /\ c.t = "num"
            /\ c.n >= 0 /\ c.n <= 100
            /\ (DirectShape /\ "confidence" \in DOMAIN Decoded.f
                 /\ Decoded.f["confidence"].t = "num") =>
                  LET n == Decoded.f["confidence"].n
                  IN  c.n = (IF n > 100 THEN 100 ELSE IF n < 0 THEN 0 ELSE n)
            /\ tier = "fallback" => c.n = 50
            /\ (tier # "fallback" /\ ~DirectShape) => c.n \in {0, 90}

\* a decoded confidence of 1.5 came back as 1.0
C7_Witness ==
    /\ ParseReturned
    /\ DirectShape
    /\ "confidence" \in DOMAIN Decoded.f
    /\ Decoded.f["confidence"] = JNum(150)
    /\ parse_result.v.f["confidence"] = JNum(100)

\* the decoded citations are absent, null or a list of strings
CitationsWellTyped ==
    \/ "citations" \notin DOMAIN Decoded.f
    \/ Decoded.f["citations"] = JNull
    \/ /\ Decoded.f["citations"].t = "list"
       /\ \A i \in 1..Len(Decoded.f["citations"].items) :
             Decoded.f["citations"].items[i].t = "str"

InputCitations ==
    IF "citations" \in DOMAIN Decoded.f /\ Decoded.f["citations"].t = "list"
    THEN Decoded.f["citations"].items ELSE <<>>

\* the text of the citation holds source#location of a retrieved document
HoldsRetrieved(citation) ==
    \E d \in 1..Len(retrieved_docs) :
        LET key == retrieved_docs[d].source \o <<"#">> \o retrieved_docs[d].location
        IN  \E i \in 1..Len(citation) :
                /\ i + Len(key) - 1 <= Len(citation)
                /\ \A j \in 1..Len(key) : citation[i + j - 1] = key[j]

\* the list [source#location] of the first three retrieved documents, or
\* the sentinel alone
IsSynthesized(out) ==
    IF retrieved_docs = <<>> THEN out = <<JStr(NO_VALID_CITATION)>>
    ELSE /\ Len(out) = (IF Len(retrieved_docs) < 3 THEN Len(retrieved_docs) ELSE 3)
         /\ \A i \in 1..Len(out) :
               out[i].s = <<"[">> \o retrieved_docs[i].source \o <<"#">>
                          \o retrieved_docs[i].location \o <<"]">>

\* C8: for a direct-shape payload the output citations are the input
\* citations that hold source#location of a retrieved document, in their
\* order; when there is none, the synthesized list; never the empty list.
C8_CitationsValidated ==
    (ParseReturned /\ DirectShape /\ CitationsWellTyped) =>
        LET cin == InputCitations
            out == parse_result.v.f["citations"].items
            valid == {i \in 1..Len(cin) : HoldsRetrieved(cin[i].s)}
        IN  /\ out # <<>>
            /\ IF valid = {} THEN IsSynthesized(out)
               ELSE /\ Len(out) = Cardinality(valid)
                    /\ \A i \in valid :
                          out[Cardinality({j \in valid : j <= i})] = cin[i]

\* a citation of a document that was not retrieved was dropped and the one
\* after it kept
C8_Witness ==
    /\ ParseReturned /\ DirectShape /\ CitationsWellTyped
    /\ Len(InputCitations) = 2
    /\ ~HoldsRetrieved(InputCitations[1].s)
    /\ parse_result.v.f["citations"].items = <<InputCitations[2]>>
    /\ Len(retrieved_docs) = 4

\* C9: every citation of a returned payload is [source#location] of a
\* retrieved document, or the sentinel.
C9_CitationsWellFormed ==
    ParseReturned =>
        \A i \in 1..Len(parse_result.v.f["citations"].items) :
            LET c == parse_result.v.f["citations"].items[i]
            IN  \/ c = JStr(NO_VALID_CITATION)
                \/ \E d \in 1..Len(retrieved_docs) :
                      c = JStr(<<"[">> \o retrieved_docs[d].source \o <<"#">>
                               \o retrieved_docs[d].location \o <<"]">>)

\* C10: the answer of a returned payload is a string, never null; a decoded
\* object without an answer, or with a null answer, gets the placeholder.
C10_AnswerIsString ==
    ParseReturned =>
        /\ parse_result.v.f["answer"].t = "str"
        /\ (DirectShape /\ Get(Decoded, "answer") = JNull) =>
              parse_result.v.f["answer"] = JStr(DEFAULT_ANSWER)

\* strict decoding gave an object with a choices list whose first choice is
\* an object
EnvelopeCase ==
    /\ ppc = "done"
    /\ tier = "strict"
    /\ Decoded.t = "obj"
    /\ HasKey(Decoded, "choices")
    /\ Decoded.f["choices"].t = "list"
    /\ Decoded.f["choices"].items # <<>>
    /\ Decoded.f["choices"].items[1].t = "obj"

FirstChoice == Decoded.f["choices"].items[1]

NonEmptyStr(v) == v.t = "str" /\ v.s # <<>>

\* the content of the first choice's message, None when it has none
MessageContent ==
    IF HasKey(FirstChoice, "message") /\ FirstChoice.f["message"].t = "obj"
    THEN Get(FirstChoice.f["message"], "content")
    ELSE JNull

\* the text of the first choice, None when it has none
TextContent == Get(FirstChoice, "text")

\* the returned payload unwraps content
Unwraps(content) ==
    /\ parse_result.t = "return"
    /\ parse_result.v.f["answer"] = JStr(Strip(content.s))
    /\ parse_result.v.f["confidence"] = JNum(90)
    /\ IsSynthesized(parse_result.v.f["citations"].items)
    /\ parse_result.v.f["key_points"]
         = JList(_extract_key_points(parse_result.v.f["answer"].s))
    /\ parse_result.v.f["used_metrics"] = JList(<<>>)

\* C20 as stated: when strict decoding yields an object with a choices list
\* whose first choice carries non-empty message content or non-empty text,
\* parse returns answer = that content trimmed, confidence 0.9, citations
\* synthesized from the top 3 retrieved documents, key_points extracted from
\* the answer and empty used_metrics.
C20_EnvelopeUnwrapped ==
    (EnvelopeCase /\ (NonEmptyStr(MessageContent) \/ NonEmptyStr(TextContent)))
    => Unwraps(IF NonEmptyStr(MessageContent) THEN MessageContent
               ELSE TextContent)

\* C20 amended: the content is the message content when the first choice has
\* a message, and its text only when it has no message.
C20_EnvelopeUnwrappedByPrecedence ==
    (/\ EnvelopeCase
     /\ IF HasKey(FirstChoice, "message") THEN NonEmptyStr(MessageContent)
        ELSE NonEmptyStr(TextContent))
    => Unwraps(IF HasKey(FirstChoice, "message") THEN MessageContent
               ELSE TextContent)

\* a choice with text and no message was unwrapped, four documents retrieved
C20_Witness ==
    /\ EnvelopeCase
    /\ ~HasKey(FirstChoice, "message")
    /\ NonEmptyStr(TextContent)
    /\ Len(retrieved_docs) = 4
    /\ ParseReturned
    /\ parse_result.v.f["confidence"] = JNum(90)
    /\ Len(parse_result.v.f["key_points"].items) = 2

\* the fields of the fallback payload that C11 names, for an answer text
FallbackWith(answer) ==
    /\ parse_result.t = "return"
    /\ parse_result.v.f["answer"]
         = JStr(IF answer = <<>> THEN DEFAULT_ANSWER ELSE answer)
    /\ parse_result.v.f["confidence"] = JNum(50)
    /\ IsSynthesized(parse_result.v.f["citations"].items)
    /\ parse_result.v.f["notes"] = JStr(NOTE_NOT_JSON)

C12_RoundTrip ==
    ppc = "reparsed" =>
        /\ reparse_result.t = "return"
        /\ \A x \in PayloadFields :
              reparse_result.v.f[x] = parse_result.v.f[x]

\* the fragments of a str answer the claim keeps: split on the four terminal
\* marks and the newline, trimmed, longer than 5, the first 5 of them
FragmentsKept(v) ==
    IF v.t # "str" THEN <<>>
    ELSE Take(StripLonger(SplitOn(v.s, {"<.>", "<!>", "<?>", "<;>", "\n"}, <<>>), 5), 5)

\* C21 as stated: in every payload parse returns, key_points holds the first 5
\* fragments of the answer whose trimmed length is more than 5, in order,
\* whatever key_points the decoded response supplied.
C21_KeyPointsFromAnswer ==
    ParseReturned =>
        parse_result.v.f["key_points"] = JList(FragmentsKept(parse_result.v.f["answer"]))

\* C21 amended: the same, except that the placeholder answer has no key
\* points.
C21_KeyPointsFromAnswerButPlaceholder ==
    ParseReturned =>
        parse_result.v.f["key_points"]
            = IF parse_result.v.f["answer"] = JStr(DEFAULT_ANSWER) THEN JList(<<>>)
              ELSE JList(FragmentsKept(parse_result.v.f["answer"]))

\* a response that supplied key_points of its own and whose answer has six
\* long fragments was parsed: five key points came back
C21_Witness ==
    /\ ParseReturned
    /\ tier = "strict"
    /\ Decoded.t = "obj" /\ "key_points" \in DOMAIN Decoded.f
    /\ parse_result.v.f["answer"] = JStr(SIX_SENTENCES)
    /\ Len(parse_result.v.f["key_points"].items) = 5
    /\ parse_result.v.f["key_points"] # Decoded.f["key_points"]

-----------------------------------------------------------------------------
(* Further properties of the retriever, checked under SpecRetriever *)

\* the identifiers either backend returned for this call
QueriedIds ==
    {QueriedVector[i].id : i \in 1..Len(QueriedVector)}
        \cup {QueriedBm25[i].id : i \in 1..Len(QueriedBm25)}

\* C22: before truncation the merged list holds exactly one document for every
\* identifier either backend returned, an identifier only one backend returned
\* has a zero sub-score for the other, and when both backends return nothing
\* retrieve returns an empty list.
C22_OneDocumentPerIdentifier ==
    rpc = "done" =>
        /\ {merged[i].source : i \in 1..Len(merged)} = QueriedIds
        /\ \A i, j \in 1..Len(merged) : merged[i].source = merged[j].source => i = j
        /\ \A i \in 1..Len(merged) :
            /\ VectorScoresOf(merged[i].source) = {}
                    => merged[i].metadata.vector_score = 0
            /\ Bm25ScoresOf(merged[i].source) = {}
                    => merged[i].metadata.bm25_score = 0
        /\ (QueriedVector = <<>> /\ QueriedBm25 = <<>>) => retrieved = <<>>

\* a call merged an identifier only the vector backend returned (twice), one
\* only the lexical backend returned, and one both returned
C22_Witness ==
    /\ rpc = "done"
    /\ \E i, j \in 1..Len(QueriedVector) :
            /\ i # j /\ QueriedVector[i].id = QueriedVector[j].id
            /\ Bm25ScoresOf(QueriedVector[i].id) = {}
    /\ \E i \in 1..Len(QueriedBm25) : VectorScoresOf(QueriedBm25[i].id) = {}
    /\ \E i \in 1..Len(QueriedBm25) : VectorScoresOf(QueriedBm25[i].id) # {}
    /\ Len(merged) = 3

\* position of an identifier in the merge insertion order: the vector matches
\* in the order returned (an identifier counts where it first occurs), then
\* the lexical-only matches in the order returned
InsertionRank(id) ==
    IF VectorScoresOf(id) # {}
    THEN CHOOSE i \in 1..Len(QueriedVector) :
            /\ QueriedVector[i].id = id
            /\ \A j \in 1..(i - 1) : QueriedVector[j].id # id
    ELSE Len(QueriedVector)
            + (CHOOSE i \in 1..Len(QueriedBm25) : QueriedBm25[i].id = id)

\* C23: two documents of equal score appear in the result in merge insertion
\* order.
C23_TiesInInsertionOrder ==
    rpc = "done" =>
        \A i, j \in 1..Len(retrieved) :
            (i < j /\ retrieved[i].score = retrieved[j].score)
                => InsertionRank(retrieved[i].source) < InsertionRank(retrieved[j].source)

\* the result holds a vector match and a lexical-only match of equal score,
\* and two vector matches of equal score
C23_Witness ==
    /\ rpc = "done"
    /\ \E i, j \in 1..Len(retrieved) :
            /\ i < j /\ retrieved[i].score = retrieved[j].score
            /\ VectorScoresOf(retrieved[i].source) # {}
            /\ VectorScoresOf(retrieved[j].source) = {}
    /\ \E i, j \in 1..Len(retrieved) :
            /\ i < j /\ retrieved[i].score = retrieved[j].score
            /\ VectorScoresOf(retrieved[i].source) # {}
            /\ VectorScoresOf(retrieved[j].source) # {}

-----------------------------------------------------------------------------
(* Further properties of the chunker, checked under SpecChunker *)

\* the boundary-delimited units of the text: the functions or methods found
\* (the whole text when there is none), or the non-blank paragraphs
BoundaryUnits ==
    IF file_type = "python"
    THEN (IF FindFuncs(text, 1) = <<>> THEN <<text>> ELSE FindFuncs(text, 1))
    ELSE IF file_type = "java"
    THEN (IF FindMethods(text, 1) = <<>> THEN <<text>> ELSE FindMethods(text, 1))
    ELSE SelectSeq(SplitParagraphs(text, 1, 1), LAMBDA p : Strip(p) # <<>>)

\* s without its white space
NonWs(s) == SelectSeq(s, LAMBDA c : c \notin WS)

\* the character at position p of u (white space left out) lies in an emitted
\* unit: some unit matches the characters of u around p
AppearsInUnit(u, p) ==
    \E i \in 1..Len(chunks) :
        LET n == NonWs(chunks[i].content)
        IN  \E o \in 0..(Len(u) - Len(n)) :
                /\ o < p /\ p <= o + Len(n)
                /\ SubSeq(u, o + 1, o + Len(n)) = n

\* consecutive emitted units i and i + 1 share `overlap` characters (all of
\* the shorter one when it has fewer)
SharesOverlap(i) ==
    LET a == chunks[i].content
        b == chunks[i + 1].content
        m == Min(overlap, Min(Len(a), Len(b)))
    IN  SubSeq(a, Len(a) - m + 1, Len(a)) = SubSeq(b, 1, m)

\* C24: a text that is one boundary-delimited unit longer than chunk_size is
\* emitted as units of at most chunk_size characters, every character of the
\* unit appears in at least one of them, and consecutive units share an
\* overlap region of `overlap` characters.
C24_OversizedUnitWindowed ==
    (cpc = "done" /\ Len(BoundaryUnits) = 1 /\ Len(BoundaryUnits[1]) > chunk_size) =>
        /\ \A i \in 1..Len(chunks) : Len(chunks[i].content) <= chunk_size
        /\ \A p \in 1..Len(NonWs(BoundaryUnits[1])) :
                AppearsInUnit(NonWs(BoundaryUnits[1]), p)
        /\ \A i \in 1..(Len(chunks) - 1) : SharesOverlap(i)

\* C25: in prose splitting every paragraph of the input appears in at least
\* one emitted unit, also when the buffer is longer than chunk_size when the
\* next paragraph arrives: the buffer is flushed into a unit before it is
\* reset.
C25_EveryParagraphEmitted ==
    (cpc = "done" /\ file_type = "text") =>
        \A p \in 1..Len(NonWs(text)) : AppearsInUnit(NonWs(text), p)

-----------------------------------------------------------------------------
(* Further properties of the validator, checked under SpecValidator *)

\* metric m of the call is supported and cannot be compared: its reference
\* value is absent, or its claimed or reference value is not a number
Uncheckable(m) ==
    LET ref == Get(reference_data, m.f["name"].s[1])
    IN  /\ m.f["name"].s[1] \in SUPPORTED_METRICS
        /\ \/ ref = JNull
           \/ ~FloatOk(m.f["value"])
           \/ ~FloatOk(ref)

\* the payload of the call without the metrics that cannot be compared
RECURSIVE Checkable(_)
Checkable(metrics) ==
    IF metrics = <<>> THEN <<>>
    ELSE IF Uncheckable(Head(metrics)) THEN Checkable(Tail(metrics))
    ELSE <<Head(metrics)>> \o Checkable(Tail(metrics))

\* C26: a claimed supported metric whose reference value is absent, or whose
\* claimed or reference value is not a number, gets a cannot-verify note
\* naming it and is skipped: the call ends as it would without that metric,
\* with the same confidence, which is the incoming one when no other
\* supported metric is claimed.
C26_UncheckableMetricSkipped ==
    (vpc = "done" /\ WellFormedMetrics(payload_at_call)) =>
        LET rest == validate(SetKey(payload_at_call, "used_metrics",
                                    JList(Checkable(ClaimedMetrics))),
                             reference_data).outcome
        IN  /\ validate_result.t = rest.t
            /\ validate_result.t = "return" =>
                  /\ validate_result.v.f["confidence"] = rest.v.f["confidence"]
                  /\ Checkable(ClaimedMetrics) = <<>> =>
                        validate_result.v.f["confidence"]
                            = payload_at_call.f["confidence"]
                  /\ \A i \in 1..Len(ClaimedMetrics) :
                        Uncheckable(ClaimedMetrics[i]) =>
                            Contains(<<"cannot verify ",
                                       ClaimedMetrics[i].f["name"].s[1]>>,
                                     validate_result.v.f["notes"].s)

\* a call with a metric that has no reference value and a metric whose
\* claimed value is not a number, returned with both notes
C26_Witness ==
    /\ vpc = "done"
    /\ validate_result.t = "return"
    /\ WellFormedMetrics(payload_at_call)
    /\ Len(ClaimedMetrics) = 2
    /\ Get(reference_data, ClaimedMetrics[1].f["name"].s[1]) = JNull
    /\ Uncheckable(ClaimedMetrics[1])
    /\ Get(reference_data, ClaimedMetrics[2].f["name"].s[1]) # JNull
    /\ Uncheckable(ClaimedMetrics[2])
    /\ validate_result.v.f["confidence"] = payload_at_call.f["confidence"]
    /\ validate_result.v.f["notes"] # payload_at_call.f["notes"]

\* metric m of the call is supported, has numeric claimed and reference
\* values, and deviates from the reference by more than its tolerance in
\* absolute terms (from a reference of zero: by being other than zero)
OutOfTolerance(m) ==
    LET ref == Get(reference_data, m.f["name"].s[1])
    IN  /\ m.f["name"].s[1] \in SUPPORTED_METRICS
        /\ ref # JNull
        /\ FloatOk(ref)
        /\ FloatOk(m.f["value"])
        /\ IF Float(ref) = 0 THEN Float(m.f["value"]) # 0
           ELSE 100 * Abs(Float(m.f["value"]) - Float(ref))
                  > _get_tolerance(m.f["name"].s[1]) * Abs(Float(ref))

\* the metrics of the list whose name is on the allow-list
RECURSIVE Supported(_)
Supported(metrics) ==
    IF metrics = <<>> THEN <<>>
    ELSE IF Head(metrics).f["name"].s[1] \in SUPPORTED_METRICS
         THEN <<Head(metrics)>> \o Supported(Tail(metrics))
         ELSE Supported(Tail(metrics))

\* confidence and notes of an outcome, or the exception
ConfidenceAndNotes(outcome) ==
    IF outcome.t = "return"
    THEN <<outcome.v.f["confidence"], outcome.v.f["notes"]>>
    ELSE <<outcome>>

\* C27: with a claimed supported metric out of tolerance anywhere in the
\* list, validate returns a confidence that is at most the incoming one and
\* at most 0.5 (0.5 for an incoming confidence of at least 0.5); metrics
\* that are not on the allow-list change neither confidence nor notes.
C27_OutOfToleranceCapsConfidence ==
    (vpc = "done" /\ WellFormedMetrics(payload_at_call)) =>
        /\ (\E i \in 1..Len(ClaimedMetrics) : OutOfTolerance(ClaimedMetrics[i]))
           => /\ validate_result.t = "return"
              /\ Float(validate_result.v.f["confidence"])
                   <= Float(payload_at_call.f["confidence"])
              /\ Float(validate_result.v.f["confidence"]) <= 50
              /\ Float(payload_at_call.f["confidence"]) >= 50
                   => Float(validate_result.v.f["confidence"]) = 50
        /\ ConfidenceAndNotes(validate_result)
             = ConfidenceAndNotes(
                   validate(SetKey(payload_at_call, "used_metrics",
                                   JList(Supported(ClaimedMetrics))),
                            reference_data).outcome)

\* C28: the tolerance decision is on |claim - reference| / |reference|: a
\* claim that deviates from its reference, a negative one included, by more
\* than the tolerance is reported out of tolerance, with a percentage that
\* is not negative.
C28_AbsoluteDeviationDecides ==
    (vpc = "done" /\ WellFormedMetrics(payload_at_call)
       /\ validate_result.t = "return") =>
        \A i \in 1..Len(ClaimedMetrics) :
            LET m == ClaimedMetrics[i]
                ref == Float(Get(reference_data, m.f["name"].s[1]))
            IN  (OutOfTolerance(m) /\ ref # 0) =>
                    Contains(<<m.f["name"].s[1], " out of tolerance by ">>
                             \o Fixed1(Abs(DiffTenths(Float(m.f["value"]), ref))),
                             validate_result.v.f["notes"].s)

-----------------------------------------------------------------------------
(* Properties of the indexer, checked under SpecIndexer *)

\* C29: after any sequence of build_index and add_chunks calls, a second
\* build_index included, there are as many stored ids as vectors in the
\* index, and the id at position i is the source of the chunk whose vector
\* is at position i.
C29_IdsAlignedWithVectors ==
    index # None =>
        /\ Len(doc_ids) = Len(index.vectors)
        /\ \A i \in 1..Len(index.vectors) :
              /\ index.vectors[i] = embed(indexed[i].content)
              /\ doc_ids[i] = indexed[i].source

-----------------------------------------------------------------------------
(* Properties of the query command, checked under SpecQuery *)

\* the payload the parser returned was made by the envelope handling or by
\* the fallback tier
EnvelopeOrFallback ==
    \/ tier = "fallback"
    \/ tier \in {"strict", "repair"} /\ Decoded.t = "obj" /\ HasKey(Decoded, "choices")

\* the validation step of the query command has run
QueryValidated == ppc = "done" /\ parse_result.t = "return" /\ vpc = "done"

\* C30: REFERENCE_METRICS and SUPPORTED_METRICS share no key, so the
\* validation step of the query command returns the parser's confidence for
\* every parsed payload; a claimed supported metric gets a no-reference note
\* and no other, and payloads of the envelope handling and of the fallback
\* tier are returned unchanged.
C30_QueryValidationKeepsConfidence ==
    /\ DOMAIN REFERENCE_METRICS.f \cap SUPPORTED_METRICS = {}
    /\ QueryValidated =>
          /\ validate_result.t = "return"
          /\ validate_result.v.f["confidence"] = parse_result.v.f["confidence"]
          /\ \A i \in 1..Len(parse_result.v.f["used_metrics"].items) :
                LET m == parse_result.v.f["used_metrics"].items[i]
                IN  m.f["name"].s[1] \in SUPPORTED_METRICS =>
                        Contains(<<"cannot verify ", m.f["name"].s[1],
                                   ": no reference">>,
                                 validate_result.v.f["notes"].s)
          /\ ~Contains(<<" in tolerance">>, validate_result.v.f["notes"].s)
          /\ ~Contains(<<" out of tolerance by ">>, validate_result.v.f["notes"].s)
          /\ ~Contains(<<": type error">>, validate_result.v.f["notes"].s)
          /\ EnvelopeOrFallback => validate_result.v = parse_result.v

====
